---- MODULE Spec2Model ----
(***************************************************************************)
(* A model of the WYND MCP server (mmogomedia/wynd-mcp-server):            *)
(*   - HttpServerTransport (src/src/server/transport/http.ts): the         *)
(*     start/stop lifecycle, the live-connection set, the request          *)
(*     handler and its streaming relay;                                    *)
(*   - the tools/call dispatcher (src/src/server/index.ts and the legacy   *)
(*     server of src/unnamed/part_001), the tool handlers                  *)
(*     (src/src/server/tools/index.ts) and the resource handlers'          *)
(*     create() (src/src/server/resources/*.ts, src/unnamed/part_002).     *)
(* The Node.js runtime (net.Server, timers, streams) and the WYND backend  *)
(* are the environment: their events are actions of the model.             *)
(***************************************************************************)
EXTENDS Integers, Sequences, FiniteSets, TLC

(***************************************************************************)
(* Bounds of the model.                                                    *)
(***************************************************************************)
MaxStarts == 2
MaxStops == 2
MaxConns == 2
MaxStreamEvents == 3

StartIds == 1..MaxStarts
StopIds == 1..MaxStops
Conns == 1..MaxConns

VARIABLES
    \* ---- HttpServerTransport fields (http.ts:38-43)
    isRunning,              \* private isRunning: boolean
    connections,            \* private connections: Set<ServerResponse>
    \* ---- the http.Server of the transport (Node runtime state)
    listenState,            \* "closed" | "binding" | "listening" | "closing"
    binder,                 \* the start() call whose listen() is in flight / bound
    errorHandlers,          \* start() calls whose errorHandler is registered
    closeListeners,         \* once('close') callbacks registered by server.close(cb)
    hasCloseAllConnections, \* typeof server.closeAllConnections === 'function'
    sockets,                \* per connection: "none" | "open" | "destroying" | "closed"
    resEnded,               \* responses ended by closeConnections()
    \* ---- promises and timers of the calls made on the transport
    nStarts, startP,        \* start() calls issued; the promise each returned
    nStops, stopP,          \* stop() calls issued; the promise each returned
    forceShutdownTimer,     \* per stop(): "none" | "armed" | "fired" | "cleared"
    \* ---- observations
    bindAttempts,           \* number of server.listen() calls that started a bind
    listenCallbacks,        \* number of times the listen callback has fired
    lastBindError,          \* code of the last 'error' event of a bind
    \* ---- request handling (http.ts:52-149), one request per connection
    messageHandler,         \* private messageHandler: "null" | "set"
    reqPc,                  \* "none" | "body" | "handler" | "streaming" | "done"
    reqMethod,              \* req.method, "none" before the request arrives
    res,                    \* the ServerResponse of each request
    handlerCalls,           \* times messageHandler was invoked for the request
    bodyParsed,             \* JSON.parse was applied to the request's body
    thrown,                 \* the value caught by the catch block, http.ts:140
    streamEmitted,          \* events the result's stream has emitted, in order
    \* ---- tools/call and resource create(), one operation at a time
    defaultProjectId,       \* config.project.defaultProjectId
    toolPc,                 \* "idle" | "done"
    toolOp,                 \* the operation in hand
    toolOutcome,            \* what the operation returned or threw
    backendLog,             \* requests the operation sent to the backend
    handlerRuns,            \* tool handlers the dispatcher invoked
    raised,                 \* errors thrown inside the operation, caught or not
    \* ---- the process and WyndMcpServer (src/index.ts, server/index.ts)
    entryPoint,             \* the entry point the process runs: "none" at first
    srvPc,                  \* where WyndMcpServer.start() stands
    sdkServer,              \* this.server: "null" | "set"
    hasStop,                \* typeof this.server.stop === 'function'
    connected,              \* server.connect(transport) has resolved
    requestHandlers,        \* schemas given to server.setRequestHandler
    toolsInitFailed,        \* initializeTools caught an error
    srvStartP,              \* the promise of WyndMcpServer.start()
    cliReady,               \* the CLI has registered its own shutdown
    nSignals,               \* termination signals delivered
    srvStopP,               \* per signal: the promise of wyndMcpServer.stop()
    cliStopP,               \* per signal: the promise of serverProcess.stop()
    exitCode,               \* "none" | "0" | "1": the code of process.exit
    exitBy                  \* what called process.exit

lifeVars == <<isRunning, connections, listenState, binder, errorHandlers,
              closeListeners, hasCloseAllConnections, sockets, resEnded,
              nStarts, startP, nStops, stopP, forceShutdownTimer,
              bindAttempts, listenCallbacks, lastBindError>>

\* The lifecycle state a request leaves alone.
lifeRest == <<isRunning, listenState, binder, errorHandlers, closeListeners,
              hasCloseAllConnections, resEnded, nStarts, startP, nStops, stopP,
              forceShutdownTimer, bindAttempts, listenCallbacks, lastBindError>>

reqVars == <<messageHandler, reqPc, reqMethod, res, handlerCalls, bodyParsed,
             thrown, streamEmitted>>

toolVars == <<defaultProjectId, toolPc, toolOp, toolOutcome, backendLog,
              handlerRuns, raised>>

hostVars == <<entryPoint, srvPc, sdkServer, hasStop, connected, requestHandlers,
              toolsInitFailed, srvStartP, cliReady, nSignals, srvStopP,
              cliStopP, exitCode, exitBy>>

vars == <<lifeVars, reqVars, toolVars, hostVars>>

BindErrorCodes == {"EADDRINUSE", "EACCES"}

(***************************************************************************)
(* State after `new HttpServerTransport(options)` (http.ts:41-47).  The    *)
(* runtime either provides server.closeAllConnections (Node >= 18.2) or    *)
(* not (package.json engines: node >= 18.0.0).                             *)
(***************************************************************************)
InitTransport ==
    /\ isRunning = FALSE
    /\ connections = {}
    /\ listenState = "closed"
    /\ binder = 0
    /\ errorHandlers = {}
    /\ closeListeners = <<>>
    /\ hasCloseAllConnections \in BOOLEAN
    /\ sockets = [c \in Conns |-> "none"]
    /\ resEnded = {}
    /\ nStarts = 0
    /\ startP = [i \in StartIds |-> "none"]
    /\ nStops = 0
    /\ stopP = [i \in StopIds |-> "none"]
    /\ forceShutdownTimer = [i \in StopIds |-> "none"]
    /\ bindAttempts = 0
    /\ listenCallbacks = 0
    /\ lastBindError = "none"

\* A fresh ServerResponse: statusCode 200, nothing set, written or ended.
NewResponse == [status |-> 200, headers |-> {}, headersSent |-> FALSE,
                body |-> "none", details |-> "none", writes |-> 0,
                endCalls |-> 0, writeAfterEnd |-> FALSE]

NoError == [kind |-> "none", detail |-> "none"]

InitRequests ==
    /\ messageHandler = "null"
    /\ reqPc = [r \in Conns |-> "none"]
    /\ reqMethod = [r \in Conns |-> "none"]
    /\ res = [r \in Conns |-> NewResponse]
    /\ handlerCalls = [r \in Conns |-> 0]
    /\ bodyParsed = [r \in Conns |-> FALSE]
    /\ thrown = [r \in Conns |-> NoError]
    /\ streamEmitted = [r \in Conns |-> <<>>]

(***************************************************************************)
(* A promise settles once: resolve/reject of a settled promise is a no-op. *)
(***************************************************************************)
Settle(p, outcome) == IF p = "pending" THEN outcome ELSE p

(***************************************************************************)
(* start(), http.ts:170-194.                                               *)
(***************************************************************************)
\* Mutant: the running flag is raised as soon as listen() is called.
startExecutor_eager(id) ==
    /\ errorHandlers' = errorHandlers \cup {id}
    /\ IF listenState = "closed"
          THEN /\ listenState' = "binding"
               /\ binder' = id
               /\ bindAttempts' = bindAttempts + 1
               /\ startP' = [startP EXCEPT ![id] = "pending"]
               /\ isRunning' = TRUE
          ELSE /\ startP' = [startP EXCEPT ![id] = "rejected_original_error"]
               /\ UNCHANGED <<listenState, binder, bindAttempts, isRunning>>

\* The promise executor of start(): registers errorHandler, calls
\* server.listen(port, host, cb).  listen() on a server that is already
\* bound or binding throws ERR_SERVER_ALREADY_LISTEN inside the executor,
\* which rejects the promise with that error.
startExecutor(id) ==
    /\ errorHandlers' = errorHandlers \cup {id}
    /\ IF listenState = "closed"
          THEN /\ listenState' = "binding"
               /\ binder' = id
               /\ bindAttempts' = bindAttempts + 1
               /\ startP' = [startP EXCEPT ![id] = "pending"]
          ELSE /\ startP' = [startP EXCEPT ![id] = "rejected_original_error"]
               /\ UNCHANGED <<listenState, binder, bindAttempts>>
    /\ UNCHANGED <<isRunning>>

\* Mutant: start() without the isRunning guard (an implicit restart).
start_noGuard(id) ==
    /\ nStarts < MaxStarts
    /\ id = nStarts + 1
    /\ nStarts' = id
    /\ startExecutor(id)
    /\ UNCHANGED <<connections, closeListeners, hasCloseAllConnections, sockets,
                   resEnded, nStops, stopP, forceShutdownTimer,
                   listenCallbacks, lastBindError>>
    /\ UNCHANGED <<reqVars, toolVars, hostVars>>

start(id) ==
    /\ nStarts < MaxStarts
    /\ id = nStarts + 1
    /\ nStarts' = id
    /\ IF isRunning
          THEN /\ startP' = [startP EXCEPT ![id] = "rejected_already_running"]
               /\ UNCHANGED <<isRunning, listenState, binder, errorHandlers,
                              bindAttempts>>
          ELSE startExecutor(id)
    /\ UNCHANGED <<connections, closeListeners, hasCloseAllConnections, sockets,
                   resEnded, nStops, stopP, forceShutdownTimer,
                   listenCallbacks, lastBindError>>
    /\ UNCHANGED <<reqVars, toolVars, hostVars>>

\* The callback passed to server.listen, http.ts:188-192.
listenCallback ==
    /\ listenState = "binding"
    /\ listenState' = "listening"
    /\ isRunning' = TRUE
    /\ startP' = [startP EXCEPT ![binder] = Settle(@, "resolved")]
    /\ listenCallbacks' = listenCallbacks + 1
    /\ UNCHANGED <<connections, binder, errorHandlers, closeListeners,
                   hasCloseAllConnections, sockets, resEnded, nStarts, nStops,
                   stopP, forceShutdownTimer, bindAttempts, lastBindError>>
    /\ UNCHANGED <<reqVars, toolVars, hostVars>>

\* Mutant: every bind failure is reported as the original error.
errorHandler_generic(code, p) == Settle(p, "rejected_original_error")

\* errorHandler, http.ts:178-184: what one registered handler does to the
\* promise of its start() call.
errorHandler(code, p) ==
    IF code = "EADDRINUSE"
       THEN Settle(p, "rejected_port_in_use")
       ELSE Settle(p, "rejected_original_error")

\* The server emits 'error' for the bind in flight: every registered
\* errorHandler runs (http.ts:186 registers with on(), never removes).
bindError(code) ==
    /\ listenState = "binding"
    /\ listenState' = "closed"
    /\ lastBindError' = code
    /\ startP' = [i \in StartIds |->
                    IF i \in errorHandlers THEN errorHandler(code, startP[i])
                                           ELSE startP[i]]
    /\ UNCHANGED <<isRunning, connections, binder, errorHandlers, closeListeners,
                   hasCloseAllConnections, sockets, resEnded, nStarts, nStops,
                   stopP, forceShutdownTimer, bindAttempts, listenCallbacks>>
    /\ UNCHANGED <<reqVars, toolVars, hostVars>>

(***************************************************************************)
(* The live-connection set, http.ts:52-59.                                 *)
(***************************************************************************)
\* Mutant: the response is not tracked.
track_none(c) == connections

\* requestHandler's first statement: this.connections.add(res).
track(c) == connections \cup {c}

\* Mutant: the close callback leaves the response in the set.
closeHandler_keep(c) == connections

\* The req.on('close') callback, http.ts:57-59.
closeHandler(c) == connections \ {c}

\* A request arrives on a new connection; only a listening server accepts.
trackConnection(c) ==
    /\ listenState = "listening"
    /\ sockets[c] = "none"
    /\ sockets' = [sockets EXCEPT ![c] = "open"]
    /\ connections' = track(c)
    /\ UNCHANGED <<isRunning, listenState, binder, errorHandlers, closeListeners,
                   hasCloseAllConnections, resEnded, nStarts, startP, nStops,
                   stopP, forceShutdownTimer, bindAttempts, listenCallbacks,
                   lastBindError>>
    /\ UNCHANGED <<reqVars, toolVars, hostVars>>

\* The peer closes the connection of its own accord.
connectionClose(c) ==
    /\ sockets[c] = "open"
    /\ sockets' = [sockets EXCEPT ![c] = "closed"]
    /\ connections' = closeHandler(c)
    /\ UNCHANGED <<isRunning, listenState, binder, errorHandlers, closeListeners,
                   hasCloseAllConnections, resEnded, nStarts, startP, nStops,
                   stopP, forceShutdownTimer, bindAttempts, listenCallbacks,
                   lastBindError>>
    /\ UNCHANGED <<reqVars, toolVars, hostVars>>

\* A socket destroyed by server.closeAllConnections() emits 'close'.
socketDestroyed(c) ==
    /\ sockets[c] = "destroying"
    /\ sockets' = [sockets EXCEPT ![c] = "closed"]
    /\ connections' = closeHandler(c)
    /\ UNCHANGED <<isRunning, listenState, binder, errorHandlers, closeListeners,
                   hasCloseAllConnections, resEnded, nStarts, startP, nStops,
                   stopP, forceShutdownTimer, bindAttempts, listenCallbacks,
                   lastBindError>>
    /\ UNCHANGED <<reqVars, toolVars, hostVars>>

(***************************************************************************)
(* stop(), http.ts:199-242.                                                *)
(***************************************************************************)
\* server.close(cb) of net.Server: releases the listening handle, registers
\* cb for the 'close' event; cb receives ERR_SERVER_NOT_RUNNING when the
\* server held no handle.  'close' is emitted once no connection is left.
serverClose(id, forced) ==
    /\ closeListeners' = Append(closeListeners,
           [stop |-> id, forced |-> forced, err |-> (listenState # "listening")])
    /\ listenState' = "closing"

\* A stop() without the isRunning test.
stop_noGuard(id) ==
    /\ nStops < MaxStops
    /\ id = nStops + 1
    /\ nStops' = id
    /\ stopP' = [stopP EXCEPT ![id] = "pending"]
    /\ forceShutdownTimer' = [forceShutdownTimer EXCEPT ![id] = "armed"]
    /\ serverClose(id, FALSE)
    /\ UNCHANGED <<isRunning, connections, binder, errorHandlers,
                   hasCloseAllConnections, sockets, resEnded, nStarts, startP,
                   bindAttempts, listenCallbacks, lastBindError>>
    /\ UNCHANGED <<reqVars, toolVars, hostVars>>

stop(id) ==
    /\ nStops < MaxStops
    /\ id = nStops + 1
    /\ nStops' = id
    /\ IF ~isRunning
          THEN /\ stopP' = [stopP EXCEPT ![id] = "resolved"]
               /\ UNCHANGED <<forceShutdownTimer, closeListeners, listenState>>
          ELSE /\ stopP' = [stopP EXCEPT ![id] = "pending"]
               /\ forceShutdownTimer' = [forceShutdownTimer EXCEPT ![id] = "armed"]
               /\ serverClose(id, FALSE)
    /\ UNCHANGED <<isRunning, connections, binder, errorHandlers,
                   hasCloseAllConnections, sockets, resEnded, nStarts, startP,
                   bindAttempts, listenCallbacks, lastBindError>>
    /\ UNCHANGED <<reqVars, toolVars, hostVars>>

\* The setTimeout callback, http.ts:214-226, 5000 ms after stop().
forceShutdown(id) ==
    /\ forceShutdownTimer[id] = "armed"
    /\ forceShutdownTimer' = [forceShutdownTimer EXCEPT ![id] = "fired"]
    /\ sockets' = IF hasCloseAllConnections
                     THEN [c \in Conns |-> IF sockets[c] = "open" THEN "destroying"
                                                                  ELSE sockets[c]]
                     ELSE sockets
    /\ serverClose(id, TRUE)
    /\ UNCHANGED <<isRunning, connections, binder, errorHandlers,
                   hasCloseAllConnections, resEnded, nStarts, startP, nStops,
                   stopP, bindAttempts, listenCallbacks, lastBindError>>
    /\ UNCHANGED <<reqVars, toolVars, hostVars>>

\* The state the close callbacks read and write.
CloseState == [isRunning |-> isRunning, connections |-> connections,
               resEnded |-> resEnded, stopP |-> stopP,
               timer |-> forceShutdownTimer]

\* closeConnections, http.ts:206-211: end every tracked response, clear.
closeConnections(st) ==
    [st EXCEPT !.resEnded = @ \cup st.connections, !.connections = {}]

\* A graceful callback that leaves the running flag alone.
gracefulCallback_keepRunning(l, st) ==
    LET cleared == [st EXCEPT !.timer[l.stop] = IF @ = "armed" THEN "cleared" ELSE @]
        drained == closeConnections(cleared)
    IN [drained EXCEPT !.stopP[l.stop] =
            Settle(@, IF l.err THEN "rejected" ELSE "resolved")]

\* The callback of the graceful server.close, http.ts:229-240.
gracefulCallback(l, st) ==
    LET cleared == [st EXCEPT !.timer[l.stop] = IF @ = "armed" THEN "cleared" ELSE @,
                              !.isRunning = FALSE]
        drained == closeConnections(cleared)
    IN [drained EXCEPT !.stopP[l.stop] =
            Settle(@, IF l.err THEN "rejected" ELSE "resolved")]

\* The callback of the forced server.close, http.ts:222-225.
forcedCallback(l, st) ==
    [st EXCEPT !.isRunning = FALSE, !.stopP[l.stop] = Settle(@, "resolved")]

RECURSIVE RunCloseListeners(_, _)
RunCloseListeners(ls, st) ==
    IF ls = <<>> THEN st
    ELSE RunCloseListeners(Tail(ls),
            IF Head(ls).forced THEN forcedCallback(Head(ls), st)
                               ELSE gracefulCallback(Head(ls), st))

\* The server emits 'close': its handle is released and no connection is
\* left.  Every registered callback runs, in registration order.
emitClose ==
    /\ listenState = "closing"
    /\ \A c \in Conns : sockets[c] \in {"none", "closed"}
    /\ listenState' = "closed"
    /\ closeListeners' = <<>>
    /\ LET st == RunCloseListeners(closeListeners, CloseState)
       IN /\ isRunning' = st.isRunning
          /\ connections' = st.connections
          /\ resEnded' = st.resEnded
          /\ stopP' = st.stopP
          /\ forceShutdownTimer' = st.timer
    /\ UNCHANGED <<binder, errorHandlers, hasCloseAllConnections, sockets,
                   nStarts, startP, nStops, bindAttempts, listenCallbacks,
                   lastBindError>>
    /\ UNCHANGED <<reqVars, toolVars, hostVars>>

(***************************************************************************)
(* requestHandler, http.ts:52-149.  A request is handled in segments       *)
(* separated by its awaits: arrival up to the body read (52-93), the body  *)
(* up to the message handler (93-98), the handler's result (98-148), and   *)
(* the callbacks of a streamed result (114-130).                           *)
(***************************************************************************)
Methods == {"POST", "OPTIONS", "GET", "DELETE"}

CorsHeaders == {"Access-Control-Allow-Origin: *",
                "Access-Control-Allow-Methods: GET, POST, OPTIONS",
                "Access-Control-Allow-Headers: Content-Type"}

JsonContentType == "Content-Type: application/json"

\* What the message handler can throw: an Error with a message, or a value
\* that is no Error (throw 'boom').  detail is the error's own text.
HandlerThrowables == {[kind |-> "Error", detail |-> "boom"],
                      [kind |-> "NonError", detail |-> "boom"]}

SyntaxError == [kind |-> "SyntaxError", detail |-> "Unexpected token"]
RequestError == [kind |-> "Error", detail |-> "aborted"]

\* error instanceof Error
InstanceOfError(e) ==
    e.kind \in {"Error", "SyntaxError", "ApiError", "TypeError", "RangeError"}

\* ServerResponse.setHeader / writeHead / write / end of the Node runtime.
\* write() flushes the headers; write() after end() is refused and
\* reported (ERR_STREAM_WRITE_AFTER_END); a second end() sends nothing.
setHeader(rs, h) == [rs EXCEPT !.headers = @ \cup {h}]

writeHead(rs, code, hs) == [rs EXCEPT !.status = code, !.headers = @ \cup hs]

write(rs) ==
    IF rs.endCalls > 0
       THEN [rs EXCEPT !.writeAfterEnd = TRUE]
       ELSE [rs EXCEPT !.writes = @ + 1, !.headersSent = TRUE]

end(rs, body) ==
    IF rs.endCalls > 0
       THEN [rs EXCEPT !.endCalls = @ + 1]
       ELSE [rs EXCEPT !.endCalls = 1, !.headersSent = TRUE, !.body = body]

\* Mutant: the 405 check is missing, every verb but OPTIONS is a message.
dispatchMethod_noVerbCheck(m) ==
    IF m = "OPTIONS" THEN "preflight" ELSE "message"

\* http.ts:78 and 85: which branch a request of method m takes.
dispatchMethod(m) ==
    IF m = "OPTIONS" THEN "preflight"
    ELSE IF m # "POST" THEN "notAllowed"
    ELSE "message"

\* Mutant: the detail is dropped from the error body.
errorMessage_none(e) == "Unknown error"

\* http.ts:141: the detail reported for a caught value.
errorMessage(e) == IF InstanceOfError(e) THEN e.detail ELSE "Unknown error"

\* The catch block, http.ts:140-148.
catchBlock(rs, e) ==
    [end(writeHead(rs, 500, {JsonContentType}), "Internal Server Error")
        EXCEPT !.details = errorMessage(e)]

\* onMessage, http.ts:247-249.
onMessage ==
    /\ messageHandler = "null"
    /\ messageHandler' = "set"
    /\ UNCHANGED <<connections, sockets, reqPc, reqMethod, res, handlerCalls,
                   bodyParsed, thrown, streamEmitted>>
    /\ UNCHANGED <<lifeRest, toolVars, hostVars>>

\* Arrival of request r with method m, http.ts:52-93.
requestHandler(r, m) ==
    /\ listenState = "listening"
    /\ sockets[r] = "none"
    /\ sockets' = [sockets EXCEPT ![r] = "open"]
    /\ connections' = track(r)
    /\ reqMethod' = [reqMethod EXCEPT ![r] = m]
    /\ LET cors == [res[r] EXCEPT !.headers = @ \cup CorsHeaders]
           branch == dispatchMethod(m)
       IN CASE branch = "preflight" ->
                 /\ res' = [res EXCEPT ![r] = end(writeHead(cors, 204, {}), "none")]
                 /\ reqPc' = [reqPc EXCEPT ![r] = "done"]
            [] branch = "notAllowed" ->
                 /\ res' = [res EXCEPT ![r] =
                        end(writeHead(cors, 405, {JsonContentType}), "Method Not Allowed")]
                 /\ reqPc' = [reqPc EXCEPT ![r] = "done"]
            [] OTHER ->
                 /\ res' = [res EXCEPT ![r] = cors]
                 /\ reqPc' = [reqPc EXCEPT ![r] = "body"]
    /\ UNCHANGED <<messageHandler, handlerCalls, bodyParsed, thrown, streamEmitted>>
    /\ UNCHANGED <<lifeRest, toolVars, hostVars>>

\* A transport that parses a body only while no other request is inside
\* the message handler.
bodyEnd_serial(r, validJson) ==
    /\ reqPc[r] = "body"
    /\ \A q \in Conns \ {r} : reqPc[q] # "handler"
    /\ bodyParsed' = [bodyParsed EXCEPT ![r] = TRUE]
    /\ IF ~validJson
          THEN /\ thrown' = [thrown EXCEPT ![r] = SyntaxError]
               /\ res' = [res EXCEPT ![r] = catchBlock(@, SyntaxError)]
               /\ reqPc' = [reqPc EXCEPT ![r] = "done"]
               /\ UNCHANGED handlerCalls
          ELSE IF messageHandler = "set"
                  THEN /\ handlerCalls' = [handlerCalls EXCEPT ![r] = @ + 1]
                       /\ reqPc' = [reqPc EXCEPT ![r] = "handler"]
                       /\ UNCHANGED <<thrown, res>>
                  ELSE /\ res' = [res EXCEPT ![r] =
                              end(writeHead(@, 500, {JsonContentType}),
                                  "No message handler registered")]
                       /\ reqPc' = [reqPc EXCEPT ![r] = "done"]
                       /\ UNCHANGED <<thrown, handlerCalls>>
    /\ UNCHANGED <<connections, sockets, messageHandler, reqMethod, streamEmitted>>
    /\ UNCHANGED <<lifeRest, toolVars, hostVars>>

\* The body has been received in full and is parsed, http.ts:93-98 and
\* 136-139; validJson is whether JSON.parse accepts it.
bodyEnd(r, validJson) ==
    /\ reqPc[r] = "body"
    /\ bodyParsed' = [bodyParsed EXCEPT ![r] = TRUE]
    /\ IF ~validJson
          THEN /\ thrown' = [thrown EXCEPT ![r] = SyntaxError]
               /\ res' = [res EXCEPT ![r] = catchBlock(@, SyntaxError)]
               /\ reqPc' = [reqPc EXCEPT ![r] = "done"]
               /\ UNCHANGED handlerCalls
          ELSE IF messageHandler = "set"
                  THEN /\ handlerCalls' = [handlerCalls EXCEPT ![r] = @ + 1]
                       /\ reqPc' = [reqPc EXCEPT ![r] = "handler"]
                       /\ UNCHANGED <<thrown, res>>
                  ELSE /\ res' = [res EXCEPT ![r] =
                              end(writeHead(@, 500, {JsonContentType}),
                                  "No message handler registered")]
                       /\ reqPc' = [reqPc EXCEPT ![r] = "done"]
                       /\ UNCHANGED <<thrown, handlerCalls>>
    /\ UNCHANGED <<connections, sockets, messageHandler, reqMethod, streamEmitted>>
    /\ UNCHANGED <<lifeRest, toolVars, hostVars>>

\* The request emits 'error' while its body is read: parseRequestBody
\* rejects (http.ts:163) and the catch block answers.
bodyError(r) ==
    /\ reqPc[r] = "body"
    /\ thrown' = [thrown EXCEPT ![r] = RequestError]
    /\ res' = [res EXCEPT ![r] = catchBlock(@, RequestError)]
    /\ reqPc' = [reqPc EXCEPT ![r] = "done"]
    /\ UNCHANGED <<connections, sockets, messageHandler, reqMethod, handlerCalls,
                   bodyParsed, streamEmitted>>
    /\ UNCHANGED <<lifeRest, toolVars, hostVars>>

\* The message handler resolves, http.ts:98-135: a response that carries
\* a stream is relayed in chunks, any other is sent as JSON.
handlerReturns(r, hasStream) ==
    /\ reqPc[r] = "handler"
    /\ IF hasStream
          THEN /\ res' = [res EXCEPT ![r] =
                      write(setHeader(setHeader(@, JsonContentType),
                                      "Transfer-Encoding: chunked"))]
               /\ reqPc' = [reqPc EXCEPT ![r] = "streaming"]
          ELSE /\ res' = [res EXCEPT ![r] =
                      end(setHeader(@, JsonContentType), "response")]
               /\ reqPc' = [reqPc EXCEPT ![r] = "done"]
    /\ UNCHANGED <<connections, sockets, messageHandler, reqMethod, handlerCalls,
                   bodyParsed, thrown, streamEmitted>>
    /\ UNCHANGED <<lifeRest, toolVars, hostVars>>

\* The message handler throws (its promise rejects) with e, http.ts:140-148.
handlerThrows(r, e) ==
    /\ reqPc[r] = "handler"
    /\ thrown' = [thrown EXCEPT ![r] = e]
    /\ res' = [res EXCEPT ![r] = catchBlock(@, e)]
    /\ reqPc' = [reqPc EXCEPT ![r] = "done"]
    /\ UNCHANGED <<connections, sockets, messageHandler, reqMethod, handlerCalls,
                   bodyParsed, streamEmitted>>
    /\ UNCHANGED <<lifeRest, toolVars, hostVars>>

\* The callbacks registered on the result's stream, http.ts:114-130.
onStreamData(rs) == write(rs)

onStreamEnd(rs) == end(rs, "none")

onStreamError(rs) ==
    IF ~rs.headersSent
       THEN end([rs EXCEPT !.status = 500], "Stream error")
       ELSE end(rs, "none")

\* The stream emits an event.  A stream emits 'end' at most once and no
\* 'data' after it; it may emit 'error' before 'end' (and go on when it
\* does not destroy itself) or after it (a failing destroy).
streamEvent(r, ev) ==
    /\ reqPc[r] = "streaming"
    /\ Len(streamEmitted[r]) < MaxStreamEvents
    /\ \A i \in 1..Len(streamEmitted[r]) :
          /\ streamEmitted[r][i] # "end" \/ ev = "error"
          /\ streamEmitted[r][i] # "error" \/ ev # "error"
    /\ streamEmitted' = [streamEmitted EXCEPT ![r] = Append(@, ev)]
    /\ res' = [res EXCEPT ![r] =
                 CASE ev = "data" -> onStreamData(@)
                   [] ev = "end" -> onStreamEnd(@)
                   [] OTHER -> onStreamError(@)]
    /\ UNCHANGED <<connections, sockets, messageHandler, reqPc, reqMethod,
                   handlerCalls, bodyParsed, thrown>>
    /\ UNCHANGED <<lifeRest, toolVars, hostVars>>

(***************************************************************************)
(* Values, objects and the backend client.                                 *)
(*                                                                         *)
(* A JavaScript object is a function over Fields; a key whose value is     *)
(* Undefined is an absent key (JSON.stringify and axios drop such keys).   *)
(* Numbers and booleans of argument maps are written as strings.           *)
(***************************************************************************)
Undefined == "<undefined>"
Null == "<null>"

\* !v of JavaScript
Falsy(v) == v \in {Undefined, Null, "", "0", "false"}

\* v || d of JavaScript
OrElse(v, d) == IF Falsy(v) THEN d ELSE v

Fields == {"id", "title", "description", "status", "priority", "project_id",
           "phase_id", "assignee_id", "due_date", "completed_at",
           "created_by", "task_id", "limit", "type", "search", "content",
           "order", "start_date", "end_date", "color", "include_stats",
           "include_examples", "name", "owner_id", "slug", "settings",
           "workspace_id", "metadata", "error_type", "error_message",
           "stack_trace", "resolved_at", "resolved_by", "category_id",
           "tags", "variables", "is_public", "parent_prompt_id",
           "updated_at"}

\* An object literal: the keys of r, every other key absent.
Obj(r) == [f \in Fields |-> IF f \in DOMAIN r THEN r[f] ELSE Undefined]

EmptyObj == [f \in Fields |-> Undefined]

\* The keys of S copied from o when they are not undefined
\* (if (args.k !== undefined) updateData.k = args.k).
Pick(o, S) == [f \in Fields |-> IF f \in S THEN o[f] ELSE Undefined]

\* A handler sends at most two requests (tools/index.ts:290-295, 680-683).
BackendCallsPerOp == 2

\* What the backend does with one request: a 2xx answer with the entity or
\* the list envelope, a 2xx answer with an empty object, an answer outside
\* 2xx, or no answer at all.
BackendOutcomes == {"2xx", "2xxBare", "non2xx", "noResponse"}

BackendScripts == [1..BackendCallsPerOp -> BackendOutcomes]

\* The rejection of the response interceptor (endpoints/index.ts:243-268).
ClientError(o) ==
    CASE o = "non2xx" ->
           [kind |-> "ApiError", detail |-> "Backend rejected the request"]
      [] o = "noResponse" ->
           [kind |-> "Error", detail |-> "No response received from server"]
      [] OTHER -> NoError

\* What the backend holds in each collection, as far as the status
\* filter of a list request can tell the items apart.
StoredItems ==
    <<Obj([id |-> "id-1", status |-> "in_progress"]),
      Obj([id |-> "id-2", status |-> "done"]),
      Obj([id |-> "id-3", status |-> "todo"])>>

MatchesStatus(item, params) ==
    params["status"] = Undefined \/ item["status"] = params["status"]

\* The items a list request gets: all of them, or those of the status it
\* asks for.
Listed(params) ==
    SelectSeq(StoredItems, LAMBDA item : MatchesStatus(item, params))

\* The body of a 2xx answer; the interceptor hands it to the caller
\* (return response.data).  Single-item endpoints answer the bare entity,
\* list endpoints the envelope {data: [...]}.
ResponseBody(method, path, data, shape, o) ==
    IF shape = "list"
    THEN [hasData |-> o = "2xx",
          data |-> IF o = "2xx" THEN Listed(data) ELSE <<>>]
    ELSE IF o # "2xx" THEN EmptyObj
    ELSE IF method = "POST" THEN [data EXCEPT !["id"] = "id-1"]
    ELSE IF method = "PUT" THEN [data EXCEPT !["id"] = path[2]]
    ELSE Obj([id |-> path[2], title |-> "Stored title",
              name |-> "Stored name", status |-> "active",
              workspace_id |-> "ws-1"])

\* One request through the axios instance wyndApi.  req is the entry of
\* the request in the log: what was sent and what the backend answered.
Request(method, path, data, shape, o) ==
    [ok |-> o \in {"2xx", "2xxBare"},
     body |-> ResponseBody(method, path, data, shape, o),
     error |-> ClientError(o),
     req |-> [method |-> method, path |-> path, data |-> data,
              outcome |-> o,
              answer |-> ResponseBody(method, path, data, shape, o)]]

(***************************************************************************)
(* The endpoints of the api object (src/src/api/endpoints/index.ts).       *)
(***************************************************************************)
workspaces_get(id, o) == Request("GET", <<"/api/workspaces/", id>>, EmptyObj, "item", o)

workspaces_create(data, o) == Request("POST", <<"/api/workspaces">>, data, "item", o)

projects_get(id, o) == Request("GET", <<"/api/projects/", id>>, EmptyObj, "item", o)

projects_getStats(id, o) ==
    Request("GET", <<"/api/projects/", id, "/stats">>, EmptyObj, "item", o)

tasks_list(params, o) ==
    Request("GET", <<"/api/tasks">>,
            [params EXCEPT !["project_id"] = OrElse(@, defaultProjectId)],
            "list", o)

\* A tasks.create that sends the data as it got them.
tasks_create_asIs(data, o) == Request("POST", <<"/api/tasks">>, data, "item", o)

tasks_create(data, o) ==
    Request("POST", <<"/api/tasks">>,
            [data EXCEPT !["project_id"] = OrElse(@, defaultProjectId)],
            "item", o)

tasks_update(id, data, o) == Request("PUT", <<"/api/tasks/", id>>, data, "item", o)

documents_list(params, o) ==
    Request("GET", <<"/api/documents">>,
            [params EXCEPT !["project_id"] = OrElse(@, defaultProjectId)],
            "list", o)

documents_create(data, o) ==
    Request("POST", <<"/api/documents">>,
            [data EXCEPT !["project_id"] = OrElse(@, defaultProjectId)],
            "item", o)

errors_track(data, o) ==
    Request("POST", <<"/api/errors">>, [data EXCEPT !["status"] = "open"], "item", o)

prompts_create(data, o) == Request("POST", <<"/api/prompts">>, data, "item", o)

\* The phases endpoints are used by the tools and by PhaseResource but are
\* not part of the api object of the endpoints file; they follow the CRUD
\* paths of the backend's phases collection.
phases_list(params, o) == Request("GET", <<"/api/phases">>, params, "list", o)

phases_create(data, o) == Request("POST", <<"/api/phases">>, data, "item", o)

phases_update(id, data, o) == Request("PUT", <<"/api/phases/", id>>, data, "item", o)

(***************************************************************************)
(* The tool handlers (src/src/server/tools/index.ts).                      *)
(*                                                                         *)
(* A run of a handler or of a create() is a record: what it returned or    *)
(* threw, the requests it sent, and the errors thrown on its way, each     *)
(* with the catch block that took it.                                      *)
(***************************************************************************)
NoEnvelope == [none |-> TRUE]

Return(env, calls, errs) ==
    [threw |-> FALSE, ret |-> env, error |-> NoError, calls |-> calls,
     raised |-> errs]

Throw(e, calls, errs) ==
    [threw |-> TRUE, ret |-> NoEnvelope, error |-> e, calls |-> calls,
     raised |-> Append(errs, [error |-> e, caughtBy |-> "none"])]

\* An error taken by an inner try/catch that only logs a warning.
Warned(e) == [error |-> e, caughtBy |-> "warn"]

\* error instanceof Error ? error.message : 'Unknown error occurred'
toolErrorMessage(e) ==
    IF InstanceOfError(e) THEN e.detail ELSE "Unknown error occurred"

\* The failure envelope of a handler; the list tools add an empty list.
FailureEnvelope(msg, listKey) ==
    CASE listKey = "tasks" -> [success |-> FALSE, error |-> msg, tasks |-> <<>>]
      [] listKey = "documents" ->
           [success |-> FALSE, error |-> msg, documents |-> <<>>]
      [] listKey = "phases" -> [success |-> FALSE, error |-> msg, phases |-> <<>>]
      [] OTHER -> [success |-> FALSE, error |-> msg]

\* A handler whose catch block lets the error through.
toolCatch_rethrow(t, listKey) == t

\* The catch block that closes every handler: the error becomes the failure
\* envelope.
toolCatch(t, listKey) ==
    IF t.threw
    THEN [threw |-> FALSE,
          ret |-> FailureEnvelope(toolErrorMessage(t.error), listKey),
          error |-> NoError,
          calls |-> t.calls,
          raised |-> [i \in 1..Len(t.raised) |->
                        IF i = Len(t.raised)
                        THEN [t.raised[i] EXCEPT !.caughtBy = "handler"]
                        ELSE t.raised[i]]]
    ELSE t

\* response.data || []
ListData(body) == IF body.hasData THEN body.data ELSE <<>>

\* A filter that forwards whatever the caller sent.
statusFilter_forward(status) == status

\* The status the handler puts into params (tools/index.ts:56-61): the
\* caller's value, 'in_progress' when there is none, no key for 'all'.
statusFilter(status) ==
    IF ~Falsy(status) /\ status # "all" THEN status
    ELSE IF Falsy(status) THEN "in_progress"
    ELSE Undefined

\* tools/index.ts:45-98
listTasks(args, be) ==
    LET base == Obj([project_id |-> defaultProjectId,
                     priority |-> args["priority"],
                     assignee_id |-> args["assignee_id"],
                     phase_id |-> args["phase_id"],
                     limit |-> OrElse(args["limit"], "50")])
        params == [base EXCEPT !["status"] = statusFilter(args["status"])]
        r == tasks_list(params, be[1])
        tasks == ListData(r.body)
        appliedStatus == IF args["status"] = "all" THEN "all"
                         ELSE IF ~Falsy(params["status"]) THEN params["status"]
                         ELSE "in_progress (default)"
    IN toolCatch(
         IF r.ok
         THEN Return([success |-> TRUE,
                      tasks |-> tasks,
                      count |-> Len(tasks),
                      filter_applied |->
                          [status |-> appliedStatus,
                           priority |-> OrElse(params["priority"], "all"),
                           phase_id |-> OrElse(params["phase_id"], "all"),
                           project_id |-> defaultProjectId],
                      message |->
                          <<"Found ", Len(tasks), " tasks">> \o
                          (IF appliedStatus = "all" THEN <<>>
                           ELSE <<" with status '",
                                  OrElse(params["status"], "in_progress"),
                                  "'">>)],
                     <<r.req>>, <<>>)
         ELSE Throw(r.error, <<r.req>>, <<>>),
         "tasks")

\* tools/index.ts:144-181
createTask(args, be) ==
    LET taskData == Obj([title |-> args["title"],
                         description |-> OrElse(args["description"], Null),
                         status |-> OrElse(args["status"], "todo"),
                         priority |-> OrElse(args["priority"], "medium"),
                         project_id |-> defaultProjectId,
                         phase_id |-> OrElse(args["phase_id"], Null),
                         assignee_id |-> OrElse(args["assignee_id"], Null),
                         due_date |-> OrElse(args["due_date"], Null),
                         completed_at |-> Null,
                         created_by |-> "mcp-client"])
        r == tasks_create(taskData, be[1])
    IN toolCatch(
         IF Falsy(args["title"])
         THEN Return([success |-> FALSE, error |-> "Task title is required"],
                     <<>>, <<>>)
         ELSE IF r.ok
         THEN Return([success |-> TRUE,
                      task |-> r.body,
                      message |-> <<"Task '", r.body["title"],
                                    "' created successfully with ID: ",
                                    r.body["id"]>>],
                     <<r.req>>, <<>>)
         ELSE Throw(r.error, <<r.req>>, <<>>),
         "none")

\* tools/index.ts:229-262
updateTask(args, be) ==
    LET updateData == Pick(args, {"title", "description", "status",
                                  "priority", "assignee_id", "due_date",
                                  "phase_id"})
        r == tasks_update(args["task_id"], updateData, be[1])
    IN toolCatch(
         IF Falsy(args["task_id"])
         THEN Return([success |-> FALSE, error |-> "Task ID is required"],
                     <<>>, <<>>)
         ELSE IF r.ok
         THEN Return([success |-> TRUE,
                      task |-> r.body,
                      message |-> <<"Task '", r.body["title"],
                                    "' updated successfully">>],
                     <<r.req>>, <<>>)
         ELSE Throw(r.error, <<r.req>>, <<>>),
         "none")

\* tools/index.ts:280-315
getProject(args, be) ==
    LET projectId == defaultProjectId
        r == projects_get(projectId, be[1])
        wantStats == ~Falsy(args["include_stats"])
        s == projects_getStats(projectId, be[2])
    IN toolCatch(
         IF Falsy(projectId)
         THEN Return([success |-> FALSE,
                      error |-> "No default project configured"], <<>>, <<>>)
         ELSE IF ~r.ok THEN Throw(r.error, <<r.req>>, <<>>)
         ELSE Return([success |-> TRUE,
                      project |-> r.body,
                      stats |-> IF wantStats /\ s.ok
                                THEN [fetched |-> TRUE, value |-> s.body]
                                ELSE [fetched |-> FALSE, value |-> EmptyObj],
                      message |-> <<"Retrieved project: ", r.body["title"]>>],
                     IF wantStats THEN <<r.req, s.req>> ELSE <<r.req>>,
                     IF wantStats /\ ~s.ok THEN <<Warned(s.error)>> ELSE <<>>),
         "none")

\* tools/index.ts:342-374
listDocuments(args, be) ==
    LET params == Obj([project_id |-> defaultProjectId,
                       type |-> args["type"],
                       search |-> args["search"],
                       limit |-> OrElse(args["limit"], "20")])
        r == documents_list(params, be[1])
        documents == ListData(r.body)
    IN toolCatch(
         IF r.ok
         THEN Return([success |-> TRUE,
                      documents |-> documents,
                      count |-> Len(documents),
                      filter_applied |->
                          [type |-> OrElse(params["type"], "all"),
                           search |-> OrElse(params["search"], "none"),
                           project_id |-> defaultProjectId],
                      message |-> <<"Found ", Len(documents), " documents">>],
                     <<r.req>>, <<>>)
         ELSE Throw(r.error, <<r.req>>, <<>>),
         "documents")

\* tools/index.ts:406-438
createDocument(args, be) ==
    LET documentData == Obj([title |-> args["title"],
                             content |-> OrElse(args["content"], ""),
                             type |-> OrElse(args["type"], "other"),
                             description |-> OrElse(args["description"], Null),
                             project_id |-> defaultProjectId])
        r == documents_create(documentData, be[1])
    IN toolCatch(
         IF Falsy(args["title"])
         THEN Return([success |-> FALSE,
                      error |-> "Document title is required"], <<>>, <<>>)
         ELSE IF r.ok
         THEN Return([success |-> TRUE,
                      document |-> r.body,
                      message |-> <<"Document '", r.body["title"],
                                    "' created successfully with ID: ",
                                    r.body["id"]>>],
                     <<r.req>>, <<>>)
         ELSE Throw(r.error, <<r.req>>, <<>>),
         "none")

\* tools/index.ts:462-492
listPhases(args, be) ==
    LET params == Obj([project_id |-> defaultProjectId,
                       status |-> args["status"],
                       limit |-> OrElse(args["limit"], "50")])
        r == phases_list(params, be[1])
        phases == ListData(r.body)
    IN toolCatch(
         IF r.ok
         THEN Return([success |-> TRUE,
                      phases |-> phases,
                      count |-> Len(phases),
                      filter_applied |->
                          [status |-> OrElse(params["status"], "all"),
                           project_id |-> defaultProjectId],
                      message |->
                          <<"Found ", Len(phases), " phases">> \o
                          (IF Falsy(params["status"]) THEN <<>>
                           ELSE <<" with status '", params["status"], "'">>)],
                     <<r.req>>, <<>>)
         ELSE Throw(r.error, <<r.req>>, <<>>),
         "phases")

\* tools/index.ts:537-572
createPhase(args, be) ==
    LET phaseData == Obj([title |-> args["title"],
                          description |-> OrElse(args["description"], Null),
                          status |-> OrElse(args["status"], "planning"),
                          order |-> OrElse(args["order"], "1"),
                          project_id |-> defaultProjectId,
                          start_date |-> OrElse(args["start_date"], Null),
                          end_date |-> OrElse(args["end_date"], Null),
                          color |-> OrElse(args["color"], Null)])
        r == phases_create(phaseData, be[1])
    IN toolCatch(
         IF Falsy(args["title"])
         THEN Return([success |-> FALSE, error |-> "Phase title is required"],
                     <<>>, <<>>)
         ELSE IF r.ok
         THEN Return([success |-> TRUE,
                      phase |-> r.body,
                      message |-> <<"Phase '", r.body["title"],
                                    "' created successfully with ID: ",
                                    r.body["id"]>>],
                     <<r.req>>, <<>>)
         ELSE Throw(r.error, <<r.req>>, <<>>),
         "none")

\* tools/index.ts:620-653
updatePhase(args, be) ==
    LET updateData == Pick(args, {"title", "description", "status", "order",
                                  "start_date", "end_date", "color"})
        r == phases_update(args["phase_id"], updateData, be[1])
    IN toolCatch(
         IF Falsy(args["phase_id"])
         THEN Return([success |-> FALSE, error |-> "Phase ID is required"],
                     <<>>, <<>>)
         ELSE IF r.ok
         THEN Return([success |-> TRUE,
                      phase |-> r.body,
                      message |-> <<"Phase '", r.body["title"],
                                    "' updated successfully">>],
                     <<r.req>>, <<>>)
         ELSE Throw(r.error, <<r.req>>, <<>>),
         "none")

\* tools/index.ts:671-774.  The project and the workspace lookups sit in
\* try blocks of their own, whose catch only logs a warning.
getContext(args, be) ==
    LET lookProject == ~Falsy(defaultProjectId)
        p == projects_get(defaultProjectId, be[1])
        gotProject == lookProject /\ p.ok
        lookWorkspace == gotProject /\ ~Falsy(p.body["workspace_id"])
        w == workspaces_get(p.body["workspace_id"], be[2])
        gotWorkspace == lookWorkspace /\ w.ok
        projectInfo == IF gotProject THEN p.body ELSE EmptyObj
        workspaceInfo == IF gotWorkspace THEN w.body ELSE EmptyObj
        context ==
            [server |-> [name |-> "wynd", version |-> "1.5.1",
                         transport |-> "stdio"],
             project |->
                 [defaultProjectId |-> defaultProjectId,
                  title |-> OrElse(projectInfo["title"], "Unknown Project"),
                  description |-> OrElse(projectInfo["description"], Null),
                  status |-> OrElse(projectInfo["status"], "unknown"),
                  workspaceId |-> OrElse(projectInfo["workspace_id"], Null)],
             workspace |->
                 [id |-> OrElse(workspaceInfo["id"], Null),
                  name |-> OrElse(workspaceInfo["name"], "Unknown Workspace"),
                  description |-> OrElse(workspaceInfo["description"], Null)],
             usage |-> args["include_examples"] # "false"]
    IN toolCatch(
         Return([success |-> TRUE,
                 context |-> context,
                 message |-> "Server context retrieved successfully"],
                (IF lookProject THEN <<p.req>> ELSE <<>>) \o
                (IF lookWorkspace THEN <<w.req>> ELSE <<>>),
                (IF lookProject /\ ~p.ok THEN <<Warned(p.error)>> ELSE <<>>) \o
                (IF lookWorkspace /\ ~w.ok THEN <<Warned(w.error)>> ELSE <<>>)),
         "none")

\* export const tools = [...], tools/index.ts:779-790
tools == <<"list_tasks", "create_task", "update_task", "list_phases",
           "create_phase", "update_phase", "get_project", "list_documents",
           "create_document", "get_context">>

ToolNames == {tools[i] : i \in 1..Len(tools)}

\* tool.handler(args)
handler(tool, args, be) ==
    CASE tool = "list_tasks" -> listTasks(args, be)
      [] tool = "create_task" -> createTask(args, be)
      [] tool = "update_task" -> updateTask(args, be)
      [] tool = "list_phases" -> listPhases(args, be)
      [] tool = "create_phase" -> createPhase(args, be)
      [] tool = "update_phase" -> updatePhase(args, be)
      [] tool = "get_project" -> getProject(args, be)
      [] tool = "list_documents" -> listDocuments(args, be)
      [] tool = "create_document" -> createDocument(args, be)
      [] OTHER -> getContext(args, be)

(***************************************************************************)
(* The tools/call dispatcher (src/src/server/index.ts:174-196).            *)
(***************************************************************************)
\* request.params.arguments: a map, or not given at all.
NoArguments == [given |-> FALSE, map |-> EmptyObj]

\* args || {}
ArgsOrEmpty(arguments) == IF arguments.given THEN arguments.map ELSE EmptyObj

\* String.prototype.toLowerCase on the names the model calls.
toLowerCase(name) ==
    CASE name = "LIST_TASKS" -> "list_tasks"
      [] name = "Create_Task" -> "create_task"
      [] OTHER -> name

\* A lookup that ignores the case of the name.
findTool_ignoreCase(name) ==
    IF toLowerCase(name) \in ToolNames THEN toLowerCase(name) ELSE Undefined

\* tools.find(t => t.name === name)
findTool(name) == IF name \in ToolNames THEN name ELSE Undefined

\* The handler registered for CallToolRequestSchema.  The text of the
\* content is the JSON of the envelope the tool handler returned.
callToolHandler(name, arguments, be) ==
    LET tool == findTool(name)
        t == handler(tool, ArgsOrEmpty(arguments), be)
    IN IF tool = Undefined
       THEN [outcome |-> [kind |-> "thrown",
                          error |-> [kind |-> "Error",
                                     detail |-> <<"Tool '", name, "' not found">>]],
             calls |-> <<>>, runs |-> <<>>, raised |-> <<>>]
       ELSE IF t.threw
       THEN [outcome |-> [kind |-> "thrown", error |-> t.error],
             calls |-> t.calls, runs |-> <<tool>>, raised |-> t.raised]
       ELSE [outcome |-> [kind |-> "returned",
                          content |-> [type |-> "text", text |-> t.ret]],
             calls |-> t.calls, runs |-> <<tool>>, raised |-> t.raised]

(***************************************************************************)
(* The legacy server's dispatcher (src/unnamed/part_001:1559-2622): one    *)
(* switch over the tool name.  Each case sends the request of its tool and *)
(* returns its answer as text; the model names the request after the tool. *)
(***************************************************************************)
LegacyToolNames ==
    {"create_workspace", "list_workspaces", "get_workspace",
     "update_workspace", "invite_to_workspace", "create_project",
     "list_projects", "get_project", "update_project", "delete_project",
     "get_user_profile", "update_user_profile", "list_workspace_members",
     "get_onboarding_status", "get_workspace_stats", "get_project_stats",
     "generate_activity_report", "create_task", "list_tasks", "get_task",
     "update_task", "delete_task", "assign_task", "create_subtask",
     "list_subtasks", "create_document", "list_documents", "get_document",
     "update_document", "delete_document", "log_activity",
     "get_activity_logs", "track_error", "list_errors", "create_agent",
     "list_agents", "update_agent_status", "create_prompt", "list_prompts",
     "get_prompt", "update_prompt", "delete_prompt",
     "create_prompt_category", "list_prompt_categories",
     "track_prompt_usage", "get_prompt_usage", "share_prompt",
     "list_prompt_shares", "create_prompt_collection",
     "list_prompt_collections", "add_prompt_to_collection",
     "remove_prompt_from_collection", "list_collection_prompts"}

legacyCallToolHandler(name, be) ==
    LET req == [method |-> "legacy", path |-> <<name>>, data |-> EmptyObj]
        e == ClientError(be[1])
    IN IF name \notin LegacyToolNames
       THEN \* default: throw; the catch rethrows what is no axios error
            [outcome |-> [kind |-> "thrown",
                          error |-> [kind |-> "Error",
                                     detail |-> <<"Unknown tool: ", name>>]],
             calls |-> <<>>, runs |-> <<>>,
             raised |-> <<[error |-> [kind |-> "Error",
                                      detail |-> <<"Unknown tool: ", name>>],
                           caughtBy |-> "none"]>>]
       ELSE IF be[1] \in {"2xx", "2xxBare"}
       THEN [outcome |-> [kind |-> "returned",
                          content |-> [type |-> "text", text |-> <<name, be[1]>>],
                          isError |-> FALSE],
             calls |-> <<req>>, runs |-> <<name>>, raised |-> <<>>]
       ELSE [outcome |-> [kind |-> "returned",
                          content |-> [type |-> "text",
                                       text |-> <<"WYND API error: ", e.detail>>],
                          isError |-> TRUE],
             calls |-> <<req>>, runs |-> <<name>>,
             raised |-> <<[error |-> e, caughtBy |-> "dispatcher"]>>]

(***************************************************************************)
(* create() of the resource handlers.  Each validates what it requires,    *)
(* sends the entity, and rethrows whatever was thrown.                     *)
(***************************************************************************)
Error(msg) == [kind |-> "Error", detail |-> msg]

\* name.toLowerCase().replace(/\s+/g, '-') on the names the model creates.
Slugify(name) == IF name = "My Space" THEN "my-space" ELSE name

\* Sends r's request and returns the entity or throws the client's error.
Send(r) ==
    IF r.ok THEN Return(r.body, <<r.req>>, <<>>)
    ELSE Throw(r.error, <<r.req>>, <<>>)

\* src/src/server/resources/workspace.ts:41-68
WorkspaceResource_create(data, be) ==
    IF Falsy(data["name"]) THEN Throw(Error("Workspace name is required"), <<>>, <<>>)
    ELSE Send(workspaces_create(
           Obj([name |-> data["name"],
                description |-> OrElse(data["description"], Null),
                owner_id |-> OrElse(data["owner_id"], "system"),
                slug |-> OrElse(data["slug"], Slugify(data["name"])),
                settings |-> OrElse(data["settings"], "{theme: light, ...}")]),
           be[1]))

\* A create() that sends the task before it validates it.
TaskResource_create_unvalidated(data, be) ==
    Send(tasks_create(Obj([title |-> data["title"],
                           project_id |-> data["project_id"]]), be[1]))

\* src/src/server/resources/workspace.ts:173-194
TaskResource_create(data, be) ==
    IF Falsy(data["title"]) THEN Throw(Error("Task title is required"), <<>>, <<>>)
    ELSE IF Falsy(data["project_id"])
    THEN Throw(Error("Project ID is required"), <<>>, <<>>)
    ELSE Send(tasks_create(
           Obj([title |-> data["title"],
                description |-> OrElse(data["description"], Null),
                status |-> OrElse(data["status"], "todo"),
                priority |-> OrElse(data["priority"], "medium"),
                project_id |-> data["project_id"],
                assignee_id |-> data["assignee_id"],
                created_by |-> data["created_by"],
                due_date |-> data["due_date"],
                completed_at |-> OrElse(data["completed_at"], Null)]),
           be[1]))

\* src/src/server/resources/project.ts:303-331
DocumentResource_create(data, be) ==
    IF Falsy(data["title"])
    THEN Throw(Error("Document title is required"), <<>>, <<>>)
    ELSE IF Falsy(data["content"])
    THEN Throw(Error("Document content is required"), <<>>, <<>>)
    ELSE IF Falsy(data["project_id"])
    THEN Throw(Error("Project ID is required for document creation"), <<>>, <<>>)
    ELSE Send(documents_create(
           Obj([title |-> data["title"],
                content |-> data["content"],
                project_id |-> data["project_id"],
                type |-> OrElse(data["type"], "other"),
                metadata |-> OrElse(data["metadata"], "{}")]),
           be[1]))

\* src/src/server/resources/error.ts:42-70
ErrorResource_create(data, be) ==
    IF Falsy(data["error_type"])
    THEN Throw(Error("Error type is required"), <<>>, <<>>)
    ELSE IF Falsy(data["error_message"])
    THEN Throw(Error("Error message is required"), <<>>, <<>>)
    ELSE Send(errors_track(
           Obj([error_type |-> data["error_type"],
                error_message |-> data["error_message"],
                stack_trace |-> data["stack_trace"],
                metadata |-> data["metadata"],
                project_id |-> data["project_id"],
                status |-> "open",
                resolved_at |-> Null,
                resolved_by |-> Null]),
           be[1]))

\* src/unnamed/part_002:143-175
PromptResource_create(data, be) ==
    IF Falsy(data["title"])
    THEN Throw(Error("Prompt title is required"), <<>>, <<>>)
    ELSE IF Falsy(data["content"])
    THEN Throw(Error("Prompt content is required"), <<>>, <<>>)
    ELSE IF Falsy(data["workspace_id"])
    THEN Throw(Error("Workspace ID is required for prompt creation"), <<>>, <<>>)
    ELSE Send(prompts_create(
           Obj([title |-> data["title"],
                content |-> data["content"],
                description |-> OrElse(data["description"], Null),
                workspace_id |-> data["workspace_id"],
                category_id |-> OrElse(data["category_id"], Null),
                tags |-> OrElse(data["tags"], "[]"),
                variables |-> OrElse(data["variables"], "{}"),
                is_public |-> OrElse(data["is_public"], "false"),
                parent_prompt_id |-> OrElse(data["parent_prompt_id"], Null)]),
           be[1]))

\* src/unnamed/part_002:49-69
PhaseResource_create(data, be) ==
    IF Falsy(data["title"]) THEN Throw(Error("Phase title is required"), <<>>, <<>>)
    ELSE IF Falsy(data["project_id"])
    THEN Throw(Error("Project ID is required"), <<>>, <<>>)
    ELSE Send(phases_create(
           Obj([title |-> data["title"],
                description |-> OrElse(data["description"], Null),
                status |-> OrElse(data["status"], "planning"),
                order |-> OrElse(data["order"], "1"),
                project_id |-> data["project_id"],
                start_date |-> OrElse(data["start_date"], Null),
                end_date |-> OrElse(data["end_date"], Null),
                color |-> OrElse(data["color"], Undefined)]),
           be[1]))

Entities == {"tasks", "documents", "workspaces", "errors", "prompts", "phases"}

create(entity, data, be) ==
    CASE entity = "tasks" -> TaskResource_create(data, be)
      [] entity = "documents" -> DocumentResource_create(data, be)
      [] entity = "workspaces" -> WorkspaceResource_create(data, be)
      [] entity = "errors" -> ErrorResource_create(data, be)
      [] entity = "prompts" -> PromptResource_create(data, be)
      [] OTHER -> PhaseResource_create(data, be)

\* The fields each create() refuses to do without.
ResourceRequired ==
    [tasks |-> {"title", "project_id"},
     documents |-> {"title", "content", "project_id"},
     workspaces |-> {"name"},
     errors |-> {"error_type", "error_message"},
     prompts |-> {"title", "content", "workspace_id"},
     phases |-> {"title", "project_id"}]

\* inputSchema.required of the tools that require a field.
ToolRequired ==
    [create_task |-> "title", update_task |-> "task_id",
     create_document |-> "title", create_phase |-> "title",
     update_phase |-> "phase_id"]

(***************************************************************************)
(* list(), read(), update() and delete() of the resource handlers, and the *)
(* endpoints they call.                                                    *)
(***************************************************************************)
workspaces_list(params, o) == Request("GET", <<"/api/workspaces">>, params, "list", o)

workspaces_update(id, data, o) ==
    Request("PUT", <<"/api/workspaces/", id>>, data, "item", o)

projects_list(params, o) == Request("GET", <<"/api/projects">>, params, "list", o)

projects_create(data, o) == Request("POST", <<"/api/projects">>, data, "item", o)

projects_update(id, data, o) ==
    Request("PUT", <<"/api/projects/", id>>, data, "item", o)

projects_delete(id, o) ==
    Request("DELETE", <<"/api/projects/", id>>, EmptyObj, "item", o)

tasks_get(id, o) == Request("GET", <<"/api/tasks/", id>>, EmptyObj, "item", o)

documents_get(id, o) == Request("GET", <<"/api/documents/", id>>, EmptyObj, "item", o)

documents_update(id, data, o) ==
    Request("PUT", <<"/api/documents/", id>>, data, "item", o)

errors_list(params, o) == Request("GET", <<"/api/errors">>, params, "list", o)

errors_get(id, o) == Request("GET", <<"/api/errors/", id>>, EmptyObj, "item", o)

errors_updateStatus(id, status, o) ==
    Request("PUT", <<"/api/errors/", id, "/status">>, Obj([status |-> status]),
            "item", o)

prompts_list(params, o) == Request("GET", <<"/api/prompts">>, params, "list", o)

prompts_get(id, o) == Request("GET", <<"/api/prompts/", id>>, EmptyObj, "item", o)

prompts_update(id, data, o) ==
    Request("PUT", <<"/api/prompts/", id>>, data, "item", o)

\* Like the other phases endpoints, not part of the endpoints file.
phases_get(id, o) == Request("GET", <<"/api/phases/", id>>, EmptyObj, "item", o)

\* A URI is the sequence of its segments, uri.split('/'):
\* 'wynd://tasks/id-1' is <<"wynd:", "", "tasks", "id-1">>.
pop(uri) == uri[Len(uri)]

\* uri === 'default' || uri.endsWith('/default')
IsDefaultUri(uri) == pop(uri) = "default"

\* list(params?): the params, or none at all.
NoParams == [given |-> FALSE, map |-> EmptyObj]

\* What read() and update() return: an entity or null.
NullResult == [null |-> TRUE, value |-> EmptyObj]

Some(v) == [null |-> FALSE, value |-> v]

\* The mark of the catch block on the last error thrown.
Caught(t) ==
    [i \in 1..Len(t.raised) |->
        IF i = Len(t.raised) THEN [t.raised[i] EXCEPT !.caughtBy = "handler"]
        ELSE t.raised[i]]

\* A list() whose catch block rethrows.
listCatch_rethrow(t) == t

\* catch (error) { console.error(...); return []; }
listCatch(t) == IF t.threw THEN Return(<<>>, t.calls, Caught(t)) ELSE t

\* A read() whose catch block rethrows.
nullCatch_rethrow(t) == t

\* catch (error) { console.error(...); return null; }
nullCatch(t) == IF t.threw THEN Return(NullResult, t.calls, Caught(t)) ELSE t

\* const response = await api.x.list(params); return response.data || [];
ListOf(r) ==
    IF r.ok THEN Return(ListData(r.body), <<r.req>>, <<>>)
    ELSE Throw(r.error, <<r.req>>, <<>>)

\* src/src/server/resources/workspace.ts:140-160
TaskResource_list(params, be) ==
    listCatch(ListOf(tasks_list(
        IF ~params.given
        THEN Obj([project_id |-> defaultProjectId, status |-> "in_progress"])
        ELSE [params.map EXCEPT
                !["project_id"] = defaultProjectId,
                !["status"] = IF Falsy(@) THEN "in_progress" ELSE @],
        be[1])))

\* src/unnamed/part_002:21-36
PhaseResource_list(params, be) ==
    listCatch(ListOf(phases_list(
        IF ~params.given THEN Obj([project_id |-> defaultProjectId])
        ELSE [params.map EXCEPT !["project_id"] = defaultProjectId],
        be[1])))

\* src/src/server/resources/project.ts:279-287
DocumentResource_list(params, be) ==
    listCatch(ListOf(documents_list(params.map, be[1])))

\* src/src/server/resources/workspace.ts:17-25
WorkspaceResource_list(params, be) ==
    listCatch(ListOf(workspaces_list(params.map, be[1])))

\* src/src/server/resources/project.ts:40-48 and 137-145
ProjectResource_list(params, be) ==
    listCatch(ListOf(projects_list(params.map, be[1])))

\* src/src/server/resources/error.ts:18-26
ErrorResource_list(params, be) ==
    listCatch(ListOf(errors_list(params.map, be[1])))

\* src/unnamed/part_002:119-127
PromptResource_list(params, be) ==
    listCatch(ListOf(prompts_list(params.map, be[1])))

list(entity, params, be) ==
    CASE entity = "tasks" -> TaskResource_list(params, be)
      [] entity = "phases" -> PhaseResource_list(params, be)
      [] entity = "documents" -> DocumentResource_list(params, be)
      [] entity = "workspaces" -> WorkspaceResource_list(params, be)
      [] entity = "projects" -> ProjectResource_list(params, be)
      [] entity = "errors" -> ErrorResource_list(params, be)
      [] OTHER -> PromptResource_list(params, be)

\* The body of every read(): the last segment of the URI is the id; an
\* empty id throws, otherwise the entity is fetched.
Fetch(get(_, _), what, uri, o) ==
    IF Falsy(pop(uri))
    THEN Throw(Error(<<"Invalid ", what, " URI">>), <<>>, <<>>)
    ELSE LET r == get(pop(uri), o)
         IN IF r.ok THEN Return(Some(r.body), <<r.req>>, <<>>)
            ELSE Throw(r.error, <<r.req>>, <<>>)

\* src/src/server/resources/workspace.ts:162-171
TaskResource_read(uri, be) == nullCatch(Fetch(tasks_get, "task", uri, be[1]))

\* src/unnamed/part_002:38-47
PhaseResource_read(uri, be) == nullCatch(Fetch(phases_get, "phase", uri, be[1]))

\* src/src/server/resources/project.ts:289-301
DocumentResource_read(uri, be) ==
    nullCatch(Fetch(documents_get, "document", uri, be[1]))

\* src/src/server/resources/workspace.ts:27-39
WorkspaceResource_read(uri, be) ==
    nullCatch(Fetch(workspaces_get, "workspace", uri, be[1]))

\* src/src/server/resources/error.ts:28-40
ErrorResource_read(uri, be) == nullCatch(Fetch(errors_get, "error", uri, be[1]))

\* src/unnamed/part_002:129-141
PromptResource_read(uri, be) == nullCatch(Fetch(prompts_get, "prompt", uri, be[1]))

\* The frames one chain of read() calls can put on the call stack before
\* the engine refuses the next call.
MaxCallDepth == 3

RangeError ==
    [kind |-> "RangeError", detail |-> "Maximum call stack size exceeded"]

\* One frame of ProjectResource.read, depth frames below it on the stack.
\* 'default' stands for the configured project: the frame calls read()
\* again with 'wynd://projects/' + the configured id, whatever that id is,
\* and the call that no longer fits on the stack throws inside the try
\* block of the frame that makes it.
RECURSIVE readFrame(_, _, _)
readFrame(uri, be, depth) ==
    IF IsDefaultUri(uri)
    THEN IF Falsy(defaultProjectId)
         THEN nullCatch(Throw(Error("No default project is configured"),
                              <<>>, <<>>))
         ELSE IF depth = MaxCallDepth
         THEN nullCatch(Throw(RangeError, <<>>, <<>>))
         ELSE nullCatch(readFrame(<<"wynd:", "", "projects", defaultProjectId>>,
                                  be, depth + 1))
    ELSE nullCatch(Fetch(projects_get, "project", uri, be[1]))

\* src/src/server/resources/project.ts:50-71 and 147-168
ProjectResource_read(uri, be) == readFrame(uri, be, 1)

read(entity, uri, be) ==
    CASE entity = "tasks" -> TaskResource_read(uri, be)
      [] entity = "phases" -> PhaseResource_read(uri, be)
      [] entity = "documents" -> DocumentResource_read(uri, be)
      [] entity = "workspaces" -> WorkspaceResource_read(uri, be)
      [] entity = "projects" -> ProjectResource_read(uri, be)
      [] entity = "errors" -> ErrorResource_read(uri, be)
      [] OTHER -> PromptResource_read(uri, be)

\* An update() that sends the caller's data as they are.
TaskResource_update_passThrough(uri, data, be) ==
    LET r == tasks_update(pop(uri), data, be[1])
    IN IF r.ok THEN Return([null |-> FALSE, value |-> r.body], <<r.req>>, <<>>)
       ELSE Return([null |-> TRUE, value |-> EmptyObj], <<r.req>>, <<>>)

\* update() of the handlers that send the allowed fields straight away;
\* the catch block returns null.
\* src/src/server/resources/workspace.ts:196-215
TaskResource_update(uri, data, be) ==
    nullCatch(
        IF Falsy(pop(uri)) THEN Throw(Error(<<"Invalid ", "task", " URI">>), <<>>, <<>>)
        ELSE LET r == tasks_update(pop(uri),
                        Pick(data, {"title", "description", "status",
                                    "priority", "due_date", "assignee_id",
                                    "completed_at"}), be[1])
             IN IF r.ok THEN Return(Some(r.body), <<r.req>>, <<>>)
                ELSE Throw(r.error, <<r.req>>, <<>>))

\* src/unnamed/part_002:71-90
PhaseResource_update(uri, data, be) ==
    nullCatch(
        IF Falsy(pop(uri)) THEN Throw(Error(<<"Invalid ", "phase", " URI">>), <<>>, <<>>)
        ELSE LET r == phases_update(pop(uri),
                        Pick(data, {"title", "description", "status", "order",
                                    "start_date", "end_date", "color"}), be[1])
             IN IF r.ok THEN Return(Some(r.body), <<r.req>>, <<>>)
                ELSE Throw(r.error, <<r.req>>, <<>>))

\* The body of an update() that reads the entity first: an empty id or an
\* entity that cannot be read throws, otherwise the allowed fields are sent.
\* The read takes the first backend outcome, the update the second.
UpdateAfterRead(readIt(_, _), update(_, _, _), what, allowed, uri, data, be) ==
    IF Falsy(pop(uri)) THEN Throw(Error(<<"Invalid ", what, " URI">>), <<>>, <<>>)
    ELSE LET existing == readIt(uri, be)
         IN IF existing.ret.null
            THEN Throw(Error(<<what, " not found">>), existing.calls,
                       existing.raised)
            ELSE LET r == update(pop(uri), Pick(data, allowed), be[2])
                 IN IF r.ok
                    THEN Return(Some(r.body), Append(existing.calls, r.req),
                                existing.raised)
                    ELSE Throw(r.error, Append(existing.calls, r.req),
                               existing.raised)

\* An update() that answers a failure with null.
rethrow_swallow(t) == nullCatch(t)

\* catch (error) { console.error(...); throw error; }
rethrow(t) == t

\* An update() that writes without reading the entity first.
DocumentResource_update_blind(uri, data, be) ==
    LET r == documents_update(pop(uri), data, be[1])
    IN IF r.ok THEN Return(Some(r.body), <<r.req>>, <<>>)
       ELSE Throw(r.error, <<r.req>>, <<>>)

\* src/src/server/resources/project.ts:333-361
DocumentResource_update(uri, data, be) ==
    rethrow(UpdateAfterRead(DocumentResource_read, documents_update, "document",
                {"title", "content", "type", "metadata", "project_id"},
                uri, data, be))

\* src/src/server/resources/workspace.ts:70-97
WorkspaceResource_update(uri, data, be) ==
    rethrow(UpdateAfterRead(WorkspaceResource_read, workspaces_update,
                "workspace", {"name", "description", "settings", "slug"},
                uri, data, be))

\* src/unnamed/part_002:177-208
PromptResource_update(uri, data, be) ==
    rethrow(UpdateAfterRead(PromptResource_read, prompts_update, "prompt",
                {"title", "content", "description", "category_id", "tags",
                 "variables", "is_public", "parent_prompt_id"},
                uri, data, be))

\* new Date().toISOString() at the time of the call
Now == "now"

\* { ...existing, ...allowedUpdates, updated_at }: the five allowed keys
\* come from data, set or not; every other key from the existing record.
Merged(existing, data) ==
    [f \in Fields |->
        IF f \in {"error_type", "error_message", "stack_trace", "metadata",
                  "project_id"} THEN data[f]
        ELSE IF f = "updated_at" THEN Now
        ELSE existing[f]]

\* An update that sends the merged record to the backend.
ErrorResource_update_persisted(uri, data, be) ==
    LET r == Request("PUT", <<"/api/errors/", pop(uri)>>, data, "item", be[1])
    IN IF r.ok THEN Return(Some(r.body), <<r.req>>, <<>>)
       ELSE Throw(r.error, <<r.req>>, <<>>)

\* src/src/server/resources/error.ts:72-120
ErrorResource_update(uri, data, be) ==
    rethrow(
        IF Falsy(pop(uri)) THEN Throw(Error(<<"Invalid ", "error", " URI">>), <<>>, <<>>)
        ELSE IF ~Falsy(data["status"])
        THEN LET r == errors_updateStatus(pop(uri), data["status"], be[1])
             IN IF r.ok THEN Return(Some(r.body), <<r.req>>, <<>>)
                ELSE Throw(r.error, <<r.req>>, <<>>)
        ELSE LET existing == ErrorResource_read(uri, be)
             IN IF existing.ret.null
                THEN Throw(Error(<<"error", " not found">>), existing.calls,
                           existing.raised)
                ELSE IF Falsy(data["error_type"])
                THEN Throw(Error("Error type is required for update"),
                           existing.calls, existing.raised)
                ELSE IF Falsy(data["error_message"])
                THEN Throw(Error("Error message is required for update"),
                           existing.calls, existing.raised)
                ELSE Return(Some(Merged(existing.ret.value, data)),
                            existing.calls, existing.raised))

UpdatableEntities == {"tasks", "phases", "documents", "workspaces", "prompts",
                      "errors"}

update(entity, uri, data, be) ==
    CASE entity = "tasks" -> TaskResource_update(uri, data, be)
      [] entity = "phases" -> PhaseResource_update(uri, data, be)
      [] entity = "documents" -> DocumentResource_update(uri, data, be)
      [] entity = "workspaces" -> WorkspaceResource_update(uri, data, be)
      [] entity = "prompts" -> PromptResource_update(uri, data, be)
      [] OTHER -> ErrorResource_update(uri, data, be)

(***************************************************************************)
(* ProjectResource.create, update and delete.  project.ts holds two        *)
(* definitions of the class: the first (12-98) refuses the three           *)
(* operations, the second (109-262) carries them out.  Which one a build   *)
(* carries is open; definition names it.                                   *)
(***************************************************************************)
ProjectDefinitions == {"readOnly", "writable"}

\* project.ts:74-76 and 170-204
ProjectResource_create(definition, data, be) ==
    IF definition = "readOnly"
    THEN Throw(Error("Project creation is not supported - projects are read-only"),
               <<>>, <<>>)
    ELSE IF Falsy(data["title"])
    THEN rethrow(Throw(Error("Project title is required"), <<>>, <<>>))
    ELSE LET look == Falsy(data["workspace_id"]) /\ ~Falsy(defaultProjectId)
             dflt == ProjectResource_read(
                         <<"wynd:", "", "projects", defaultProjectId>>, be)
             workspace == IF look /\ ~dflt.ret.null
                          THEN dflt.ret.value["workspace_id"]
                          ELSE data["workspace_id"]
             r == projects_create(
                      Obj([title |-> data["title"],
                           description |-> OrElse(data["description"], Null),
                           status |-> OrElse(data["status"], "active"),
                           workspace_id |-> OrElse(workspace, Null),
                           owner_id |-> OrElse(data["owner_id"], "system")]),
                      IF look THEN be[2] ELSE be[1])
             before == IF look THEN dflt.calls ELSE <<>>
             warned == IF look THEN dflt.raised ELSE <<>>
         IN rethrow(IF r.ok THEN Return(r.body, Append(before, r.req), warned)
                    ELSE Throw(r.error, Append(before, r.req), warned))

\* project.ts:78-80 and 206-233
ProjectResource_update(definition, uri, data, be) ==
    IF definition = "readOnly"
    THEN Throw(Error("Project updates are not supported - projects are read-only"),
               <<>>, <<>>)
    ELSE nullCatch(UpdateAfterRead(ProjectResource_read, projects_update,
                       "project",
                       {"title", "description", "status", "workspace_id"},
                       uri, data, be))

\* project.ts:82-84 and 235-248
ProjectResource_delete(definition, uri, be) ==
    IF definition = "readOnly"
    THEN Throw(Error("Project deletion is not supported - projects are read-only"),
               <<>>, <<>>)
    ELSE rethrow(
           IF Falsy(pop(uri))
           THEN Throw(Error(<<"Invalid ", "project", " URI">>), <<>>, <<>>)
           ELSE LET r == projects_delete(pop(uri), be[1])
                IN IF r.ok THEN Return(NullResult, <<r.req>>, <<>>)
                   ELSE Throw(r.error, <<r.req>>, <<>>))

(***************************************************************************)
(* Inputs of the operations.                                               *)
(***************************************************************************)
\* No default project, a project id, and the id that reads 'default'.
DefaultProjectIds == {Undefined, "proj-default", "default"}

FieldInputs == {Undefined, "", "My Space"}

\* Names a caller may send: the registered ones, two that differ from a
\* registered name in case only, one of the legacy server, the empty name.
UnknownNames == {"LIST_TASKS", "Create_Task", "delete_task", ""}

CallNames == ToolNames \cup UnknownNames

LegacyCallNames == LegacyToolNames \cup {"LIST_TASKS", "list_phases", ""}

\* The argument maps: every combination of the fields the handlers test,
\* and the maps that carry one of the other status filters and nothing else.
ArgumentInputs ==
    {NoArguments} \cup
    {[given |-> TRUE, map |-> Obj(a)] :
        a \in [title : FieldInputs,
               task_id : {Undefined, "t-1"},
               phase_id : {Undefined, "p-1"},
               status : {Undefined, "done"},
               include_stats : {Undefined, "true"}]} \cup
    {[given |-> TRUE, map |-> Obj(a)] :
        a \in [status : {"all", "in_progress"}]}

DataInputs(entity) ==
    {Obj(a) : a \in [ResourceRequired[entity] -> FieldInputs]}

(***************************************************************************)
(* The operations as actions.  An operation runs to its end in one step;   *)
(* respond hands its result to the caller and makes room for the next.     *)
(***************************************************************************)
NoOperation == [kind |-> "none"]

InitTools ==
    /\ defaultProjectId \in DefaultProjectIds
    /\ toolPc = "idle"
    /\ toolOp = NoOperation
    /\ toolOutcome = [kind |-> "none"]
    /\ backendLog = <<>>
    /\ handlerRuns = <<>>
    /\ raised = <<>>

callTool(name, arguments, be) ==
    /\ toolPc = "idle"
    /\ LET run == callToolHandler(name, arguments, be)
       IN /\ toolOutcome' = run.outcome
          /\ backendLog' = run.calls
          /\ handlerRuns' = run.runs
          /\ raised' = run.raised
    /\ toolOp' = [kind |-> "tools/call", server |-> "modular", name |-> name,
                  arguments |-> arguments]
    /\ toolPc' = "done"
    /\ UNCHANGED <<defaultProjectId, lifeVars, reqVars, hostVars>>

legacyCallTool(name, be) ==
    /\ toolPc = "idle"
    /\ LET run == legacyCallToolHandler(name, be)
       IN /\ toolOutcome' = run.outcome
          /\ backendLog' = run.calls
          /\ handlerRuns' = run.runs
          /\ raised' = run.raised
    /\ toolOp' = [kind |-> "tools/call", server |-> "legacy", name |-> name,
                  arguments |-> [given |-> TRUE, map |-> EmptyObj]]
    /\ toolPc' = "done"
    /\ UNCHANGED <<defaultProjectId, lifeVars, reqVars, hostVars>>

resourceCreate(entity, data, be) ==
    /\ toolPc = "idle"
    /\ LET run == create(entity, data, be)
       IN /\ toolOutcome' = IF run.threw
                            THEN [kind |-> "thrown", error |-> run.error]
                            ELSE [kind |-> "returned", entity |-> run.ret]
          /\ backendLog' = run.calls
          /\ raised' = run.raised
    /\ handlerRuns' = <<>>
    /\ toolOp' = [kind |-> "resource.create", entity |-> entity, data |-> data]
    /\ toolPc' = "done"
    /\ UNCHANGED <<defaultProjectId, lifeVars, reqVars, hostVars>>

respond ==
    /\ toolPc = "done"
    /\ toolPc' = "idle"
    /\ toolOp' = NoOperation
    /\ toolOutcome' = [kind |-> "none"]
    /\ backendLog' = <<>>
    /\ handlerRuns' = <<>>
    /\ raised' = <<>>
    /\ UNCHANGED <<defaultProjectId, lifeVars, reqVars, hostVars>>

(***************************************************************************)
(* The process and WyndMcpServer: start(), stop() and the termination      *)
(* signals (src/src/index.ts, src/src/server/index.ts,                     *)
(* src/src/cli/commands/server.ts).  The MCP SDK's Server is the           *)
(* environment: its connect(), setRequestHandler() and stop(), where it    *)
(* has one, settle as the actions say.                                     *)
(***************************************************************************)
MaxSignals == 2

SignalIds == 1..MaxSignals

\* build/index.js (src/index.ts), and the CLI's server command, which
\* goes through startServer of server/index.ts.
EntryPoints == {"index", "cli"}

ToolSchemas == {"tools/list", "tools/call"}

InitHost ==
    /\ entryPoint = "none"
    /\ srvPc = "idle"
    /\ sdkServer = "null"
    /\ hasStop = FALSE
    /\ connected = FALSE
    /\ requestHandlers = {}
    /\ toolsInitFailed = FALSE
    /\ srvStartP = "none"
    /\ cliReady = FALSE
    /\ nSignals = 0
    /\ srvStopP = [i \in SignalIds |-> "none"]
    /\ cliStopP = [i \in SignalIds |-> "none"]
    /\ exitCode = "none"
    /\ exitBy = "none"

\* process.exit has not been called.
Alive == exitCode = "none"

\* process.exit(code)
exit(code, by) ==
    /\ exitCode' = code
    /\ exitBy' = by

\* The process starts: index.ts registers its signal handlers and calls
\* startServer(); the CLI calls startServer of server/index.ts, which
\* calls wyndMcpServer.start() and registers handleShutdown.
launch(e) ==
    /\ entryPoint = "none"
    /\ entryPoint' = e
    /\ srvPc' = "initializing"
    /\ srvStartP' = "pending"
    /\ UNCHANGED <<sdkServer, hasStop, connected, requestHandlers,
                   toolsInitFailed, cliReady, nSignals, srvStopP, cliStopP,
                   exitCode, exitBy>>
    /\ UNCHANGED <<lifeVars, reqVars, toolVars>>

\* start() throws (server/index.ts:300-303); the caller's catch block
\* exits with 1 (index.ts:69-72, cli/commands/server.ts:40-43).
startRejects ==
    /\ srvStartP' = "rejected"
    /\ srvPc' = "settled"
    /\ exit("1", "startFailure")

\* await this.initializeServer(), server/index.ts:113-147: the SDK loads
\* and the Server is constructed, or the error is thrown on.
initializeServer(ok, stoppable) ==
    /\ Alive
    /\ srvPc = "initializing"
    /\ IF ok
       THEN /\ sdkServer' = "set"
            /\ hasStop' = stoppable
            /\ srvPc' = "connecting"
            /\ UNCHANGED <<srvStartP, exitCode, exitBy>>
       ELSE /\ startRejects
            /\ UNCHANGED <<sdkServer, hasStop>>
    /\ UNCHANGED <<entryPoint, connected, requestHandlers, toolsInitFailed,
                   cliReady, nSignals, srvStopP, cliStopP>>
    /\ UNCHANGED <<lifeVars, reqVars, toolVars>>

\* await this.server.connect(transport), server/index.ts:277-294.
connect(ok) ==
    /\ Alive
    /\ srvPc = "connecting"
    /\ IF ok
       THEN /\ connected' = TRUE
            /\ srvPc' = "initTools"
            /\ UNCHANGED <<srvStartP, exitCode, exitBy>>
       ELSE /\ startRejects
            /\ UNCHANGED connected
    /\ UNCHANGED <<entryPoint, sdkServer, hasStop, requestHandlers,
                   toolsInitFailed, cliReady, nSignals, srvStopP, cliStopP>>
    /\ UNCHANGED <<lifeVars, reqVars, toolVars>>

\* What initializeTools can meet inside its try block: nothing, a failing
\* import of the schemas, or a setRequestHandler that throws.
ToolsInitOutcomes == {"ok", "importFails", "listHandlerThrows",
                      "callHandlerThrows"}

\* An initializeTools whose catch block throws the error on.
initializeTools_rethrow(outcome) ==
    [handlers |-> CASE outcome = "ok" -> ToolSchemas
                    [] outcome = "callHandlerThrows" -> {"tools/list"}
                    [] OTHER -> {},
     failed |-> outcome # "ok",
     threw |-> outcome # "ok"]

\* The try block of initializeTools and its catch, server/index.ts:158-206:
\* the handlers registered, and the error logged and not thrown on.
initializeTools(outcome) ==
    [handlers |-> CASE outcome = "ok" -> ToolSchemas
                    [] outcome = "callHandlerThrows" -> {"tools/list"}
                    [] OTHER -> {},
     failed |-> outcome # "ok",
     threw |-> FALSE]

\* await this.initializeTools(); return this.server (server/index.ts:
\* 296-299).  The test of this.server stands before the try block.
startTools(outcome) ==
    /\ Alive
    /\ srvPc = "initTools"
    /\ LET run == initializeTools(outcome)
       IN IF sdkServer = "null" \/ run.threw
          THEN /\ startRejects
               /\ toolsInitFailed' = (sdkServer # "null")
               /\ requestHandlers' = IF sdkServer = "null" THEN {}
                                     ELSE run.handlers
               /\ UNCHANGED cliReady
          ELSE /\ requestHandlers' = run.handlers
               /\ toolsInitFailed' = run.failed
               /\ srvStartP' = "resolved"
               /\ srvPc' = "settled"
               /\ cliReady' = (entryPoint = "cli")
               /\ UNCHANGED <<exitCode, exitBy>>
    /\ UNCHANGED <<entryPoint, sdkServer, hasStop, connected, nSignals, srvStopP,
                   cliStopP>>
    /\ UNCHANGED <<lifeVars, reqVars, toolVars>>

\* wyndMcpServer.stop() up to its first await, server/index.ts:309-334:
\* nothing to do without a server or without a stop method.
StopsAtOnce == sdkServer = "null" \/ ~hasStop

\* SIGINT or SIGTERM is delivered.  index.ts:39-45 exits at once.  In the
\* CLI handleShutdown (server/index.ts:449-459) calls
\* wyndMcpServer.stop() and exits when it settles, and once start() has
\* resolved shutdown (cli/commands/server.ts:28-38) calls stop() of what
\* start() returned, the SDK's Server.
signal(i) ==
    /\ Alive
    /\ entryPoint # "none"
    /\ nSignals < MaxSignals
    /\ i = nSignals + 1
    /\ nSignals' = i
    /\ IF entryPoint = "index"
       THEN /\ exit("0", "signal")
            /\ UNCHANGED <<sdkServer, srvStopP, cliStopP>>
       ELSE /\ srvStopP' = [srvStopP EXCEPT ![i] =
                               IF StopsAtOnce THEN "resolved" ELSE "pending"]
            /\ sdkServer' = IF StopsAtOnce THEN "null" ELSE sdkServer
            /\ cliStopP' = [cliStopP EXCEPT ![i] =
                               IF ~cliReady THEN "none"
                               ELSE IF hasStop THEN "pending" ELSE "rejected"]
            /\ IF StopsAtOnce THEN exit("0", "signal")
                              ELSE UNCHANGED <<exitCode, exitBy>>
    /\ UNCHANGED <<entryPoint, srvPc, hasStop, connected, requestHandlers,
                   toolsInitFailed, srvStartP, cliReady>>
    /\ UNCHANGED <<lifeVars, reqVars, toolVars>>

\* this.server.stop() of wyndMcpServer.stop() settles; handleShutdown
\* exits with 0 or with 1.
stopSettles(i, ok) ==
    /\ Alive
    /\ srvStopP[i] = "pending"
    /\ srvStopP' = [srvStopP EXCEPT ![i] = IF ok THEN "resolved" ELSE "rejected"]
    /\ sdkServer' = IF ok THEN "null" ELSE sdkServer
    /\ exit(IF ok THEN "0" ELSE "1", "signal")
    /\ UNCHANGED <<entryPoint, srvPc, hasStop, connected, requestHandlers,
                   toolsInitFailed, srvStartP, cliReady, nSignals, cliStopP>>
    /\ UNCHANGED <<lifeVars, reqVars, toolVars>>

\* serverProcess.stop() of the CLI's shutdown settles: exit(0) follows
\* the await; a rejection is handled by nobody, and the runtime ends the
\* process with code 1 or, with a listener for it installed, goes on.
cliStopSettles(i, ok, dies) ==
    /\ Alive
    /\ cliStopP[i] = "pending"
    /\ cliStopP' = [cliStopP EXCEPT ![i] = IF ok THEN "resolved" ELSE "rejected"]
    /\ IF ok THEN exit("0", "signal")
       ELSE IF dies THEN exit("1", "unhandledRejection")
       ELSE UNCHANGED <<exitCode, exitBy>>
    /\ UNCHANGED <<entryPoint, srvPc, sdkServer, hasStop, connected,
                   requestHandlers, toolsInitFailed, srvStartP, cliReady,
                   nSignals, srvStopP>>
    /\ UNCHANGED <<lifeVars, reqVars, toolVars>>

(***************************************************************************)
(* The transport's lifecycle.                                              *)
(***************************************************************************)
Init == InitTransport /\ InitRequests /\ InitTools /\ InitHost

Next ==
    \/ \E id \in StartIds : start(id)
    \/ listenCallback
    \/ \E code \in BindErrorCodes : bindError(code)
    \/ \E id \in StopIds : stop(id)
    \/ \E id \in StopIds : forceShutdown(id)
    \/ emitClose
    \/ \E c \in Conns : trackConnection(c)
    \/ \E c \in Conns : connectionClose(c)
    \/ \E c \in Conns : socketDestroyed(c)

Spec == Init /\ [][Next]_vars

\* The event loop delivers every expired timer and every emitted event; a
\* peer is never obliged to close its connection.
Fairness ==
    /\ \A id \in StopIds : WF_vars(forceShutdown(id))
    /\ WF_vars(emitClose)
    /\ \A c \in Conns : WF_vars(socketDestroyed(c))

FairSpec == Init /\ [][Next]_vars /\ Fairness

(***************************************************************************)
(* Request handling on a running transport: the state after start() has    *)
(* resolved, on a runtime that provides closeAllConnections.               *)
(***************************************************************************)
InitRunning ==
    /\ isRunning = TRUE
    /\ connections = {}
    /\ listenState = "listening"
    /\ binder = 1
    /\ errorHandlers = {1}
    /\ closeListeners = <<>>
    /\ hasCloseAllConnections = TRUE
    /\ sockets = [c \in Conns |-> "none"]
    /\ resEnded = {}
    /\ nStarts = 1
    /\ startP = [i \in StartIds |-> IF i = 1 THEN "resolved" ELSE "none"]
    /\ nStops = 0
    /\ stopP = [i \in StopIds |-> "none"]
    /\ forceShutdownTimer = [i \in StopIds |-> "none"]
    /\ bindAttempts = 1
    /\ listenCallbacks = 1
    /\ lastBindError = "none"

ReqInit == InitRunning /\ InitRequests /\ InitTools /\ InitHost

ReqNext ==
    \/ onMessage
    \/ \E r \in Conns, m \in Methods : requestHandler(r, m)
    \/ \E r \in Conns, validJson \in BOOLEAN : bodyEnd(r, validJson)
    \/ \E r \in Conns : bodyError(r)
    \/ \E r \in Conns, hasStream \in BOOLEAN : handlerReturns(r, hasStream)
    \/ \E r \in Conns, e \in HandlerThrowables : handlerThrows(r, e)
    \/ \E r \in Conns, ev \in {"data", "end", "error"} : streamEvent(r, ev)

ReqSpec == ReqInit /\ [][ReqNext]_vars

(***************************************************************************)
(* Resource operations and direct endpoint calls as actions.               *)
(***************************************************************************)
AllEntities == Entities \cup {"projects"}

ListParamInputs ==
    {NoParams} \cup
    {[given |-> TRUE, map |-> Obj(a)] :
        a \in [project_id : {Undefined, "", "proj-caller"},
               status : {Undefined, "all", "done"}]}

UriInputs(entity) ==
    {<<"wynd:", "", entity, "id-1">>, <<"wynd:", "", entity, "">>,
     <<"wynd:", "", entity, "default">>, <<"default">>}

UpdateInputs ==
    {Obj(a) : a \in [title : {Undefined, "New title"},
                     status : {Undefined, "resolved"},
                     error_type : {Undefined, "TypeError"},
                     error_message : {Undefined, "boom"}]}

ProjectDataInputs ==
    {Obj(a) : a \in [title : FieldInputs, workspace_id : {Undefined, "ws-9"}]}

ProjectMethods == {"create", "update", "delete"}

Endpoints == {"tasks.list", "tasks.create", "documents.list", "documents.create"}

EndpointInputs ==
    {Obj(a) : a \in [project_id : {Undefined, "", "proj-caller"},
                     title : {"My Space"}]}

\* The four endpoints that fill in the default project.
endpoint(name, data, be) ==
    CASE name = "tasks.list" -> ListOf(tasks_list(data, be[1]))
      [] name = "tasks.create" -> Send(tasks_create(data, be[1]))
      [] name = "documents.list" -> ListOf(documents_list(data, be[1]))
      [] OTHER -> Send(documents_create(data, be[1]))

projectWriteRun(definition, method, uri, data, be) ==
    CASE method = "create" -> ProjectResource_create(definition, data, be)
      [] method = "update" -> ProjectResource_update(definition, uri, data, be)
      [] OTHER -> ProjectResource_delete(definition, uri, be)

\* The operation op has run as run says.
Complete(op, run) ==
    /\ toolPc' = "done"
    /\ toolOp' = op
    /\ toolOutcome' = IF run.threw
                      THEN [kind |-> "thrown", error |-> run.error]
                      ELSE [kind |-> "returned", value |-> run.ret]
    /\ backendLog' = run.calls
    /\ raised' = run.raised
    /\ handlerRuns' = <<>>
    /\ UNCHANGED <<defaultProjectId, lifeVars, reqVars, hostVars>>

resourceList(entity, params, be) ==
    /\ toolPc = "idle"
    /\ Complete([kind |-> "resource.list", entity |-> entity, params |-> params],
                list(entity, params, be))

resourceRead(entity, uri, be) ==
    /\ toolPc = "idle"
    /\ Complete([kind |-> "resource.read", entity |-> entity, uri |-> uri],
                read(entity, uri, be))

resourceUpdate(entity, uri, data, be) ==
    /\ toolPc = "idle"
    /\ Complete([kind |-> "resource.update", entity |-> entity, uri |-> uri,
                 data |-> data],
                update(entity, uri, data, be))

projectWrite(definition, method, uri, data, be) ==
    /\ toolPc = "idle"
    /\ Complete([kind |-> "project.write", method |-> method,
                 definition |-> definition, uri |-> uri, data |-> data],
                projectWriteRun(definition, method, uri, data, be))

endpointCall(name, data, be) ==
    /\ toolPc = "idle"
    /\ Complete([kind |-> "endpoint", endpoint |-> name, data |-> data],
                endpoint(name, data, be))

(***************************************************************************)
(* The response interceptor of the backend client                          *)
(* (src/src/api/endpoints/index.ts:238-272), case by case.                  *)
(***************************************************************************)
\* A value of a JSON body, with its type: String(v) is the text of v.
Str(s) == [t |-> "string", v |-> s]

String(x) ==
    CASE x.t = "null" -> "null"
      [] x.t = "undefined" -> "undefined"
      [] OTHER -> x.v

\* The bodies a backend answer can carry: an object with a message, an
\* object without, an object whose message is a number or null, a text
\* that is no object (an HTML error page), and no body (null).
ResponseBodies ==
    {[isObject |-> TRUE, hasMessage |-> TRUE, message |-> Str("X")],
     [isObject |-> TRUE, hasMessage |-> TRUE, message |-> [t |-> "number", v |-> "42"]],
     [isObject |-> TRUE, hasMessage |-> TRUE, message |-> [t |-> "null", v |-> ""]],
     [isObject |-> TRUE, hasMessage |-> FALSE, message |-> [t |-> "undefined", v |-> ""]],
     [isObject |-> FALSE, hasMessage |-> FALSE, message |-> [t |-> "undefined", v |-> ""]]}

\* What axios hands to the interceptor: a response inside 2xx, or an
\* AxiosError with a response, with a request only, or with neither.
AxiosOutcomes ==
    {[ok |-> TRUE, hasResponse |-> TRUE, hasRequest |-> TRUE, status |-> "200",
      data |-> b, message |-> ""] : b \in ResponseBodies}
    \cup
    {[ok |-> FALSE, hasResponse |-> TRUE, hasRequest |-> TRUE, status |-> st,
      data |-> b, message |-> "Request failed"] :
        st \in {"404", "500"}, b \in ResponseBodies}
    \cup
    {[ok |-> FALSE, hasResponse |-> FALSE, hasRequest |-> TRUE, status |-> "",
      data |-> [isObject |-> FALSE, hasMessage |-> FALSE,
                message |-> [t |-> "undefined", v |-> ""]],
      message |-> m] : m \in {"timeout exceeded", "connect ECONNREFUSED"}}
    \cup
    {[ok |-> FALSE, hasResponse |-> FALSE, hasRequest |-> FALSE, status |-> "",
      data |-> [isObject |-> FALSE, hasMessage |-> FALSE,
                message |-> [t |-> "undefined", v |-> ""]],
      message |-> "Invalid URL"]}

\* new ApiError(message, status, data)
ApiError(message, status, data) ==
    [kind |-> "ApiError", detail |-> message, status |-> status, data |-> data]

\* The AxiosError itself, as a thrown value.
AxiosError(a) == [kind |-> "AxiosError", detail |-> a.message, of |-> a]

\* An interceptor that reports axios's own message for every answer.
errorMessageOf_generic(a) == a.message

\* typeof responseData === 'object' && responseData !== null &&
\* 'message' in responseData ? String(responseData.message) : error.message
errorMessageOf(a) ==
    IF a.data.isObject /\ a.data.hasMessage THEN String(a.data.message)
    ELSE a.message

\* The two callbacks of api.interceptors.response.use.
responseInterceptor(a) ==
    IF a.ok THEN Return(a.data, <<>>, <<>>)
    ELSE IF a.hasResponse
    THEN Throw(ApiError(errorMessageOf(a), a.status, a.data), <<>>, <<>>)
    ELSE IF a.hasRequest
    THEN Throw(Error("No response received from server"), <<>>, <<>>)
    ELSE Throw(AxiosError(a), <<>>, <<>>)

\* One request through wyndApi with the answer a.
clientRequest(a) ==
    /\ toolPc = "idle"
    /\ Complete([kind |-> "client.request", answer |-> a],
                responseInterceptor(a))

(***************************************************************************)
(* The resources/read handler of the legacy server                         *)
(* (src/unnamed/part_001:253-376).                                         *)
(***************************************************************************)
\* A URI as the caller writes it: its scheme, whether '//' follows the
\* colon, and the segments after that.
Uri(scheme, authority, parts) ==
    [scheme |-> scheme, authority |-> authority, parts |-> parts]

\* new URL(uri) accepts what has a scheme.
ValidUrl(uri) == uri.scheme # Undefined

\* new URL(uri).pathname, as its segments: after '//' the first segment
\* is the host and no part of the path.
pathname(uri) == IF uri.authority THEN Tail(uri.parts) ELSE uri.parts

\* pathParts[i] of path.split('/'): pathParts[0] is the empty text before
\* the first slash.
pathParts(path, i) == IF i <= Len(path) THEN path[i] ELSE Undefined

\* The request a path stands for: the four cases of the switch and the
\* five patterns of its default; <<>> when none applies.
resourceRequest(path) ==
    CASE path = <<"current-user", "profile">> -> <<"/api/auth/user">>
      [] path = <<"workspaces", "list">> -> <<"/api/workspaces">>
      [] path = <<"projects", "list">> -> <<"/api/projects">>
      [] path = <<"onboarding", "status">> -> <<"/api/onboarding/status">>
      [] OTHER ->
         LET kind == pathParts(path, 1)
             id == pathParts(path, 2)
             what == pathParts(path, 3)
         IN CASE kind = "workspace" /\ what = "details" ->
                    <<"/api/workspaces/", id>>
              [] kind = "workspace" /\ what = "projects" ->
                    <<"/api/projects?workspace_id=", id>>
              [] kind = "workspace" /\ what = "members" ->
                    <<"/api/workspaces/", id, "/members">>
              [] kind = "project" /\ what = "details" ->
                    <<"/api/projects/", id>>
              [] kind = "project" /\ what = "tasks" ->
                    <<"/api/projects/", id, "/tasks">>
              [] OTHER -> <<>>

\* A handler that asks the backend for whatever path it is given.
readResourceHandler_passThrough(uri, be) ==
    LET r == Request("GET", <<"/api">> \o pathname(uri), EmptyObj, "list", be[1])
    IN Return([uri |-> uri, text |-> r.body], <<r.req>>, <<>>)

\* The handler: the URL is parsed before the try block; an axios error
\* is thrown on as 'WYND API error: ...', any other error as it is.
readResourceHandler(uri, be) ==
    IF ~ValidUrl(uri)
    THEN Throw([kind |-> "TypeError", detail |-> "Invalid URL"], <<>>, <<>>)
    ELSE LET target == resourceRequest(pathname(uri))
             shape == IF Len(target) = 1 THEN "list" ELSE "item"
             r == Request("GET", target, EmptyObj, shape, be[1])
         IN IF target = <<>>
            THEN Throw(Error(<<"Resource not found: ", pathname(uri)>>),
                       <<>>, <<>>)
            ELSE IF r.ok
            THEN Return([uri |-> uri, text |-> r.body], <<r.req>>, <<>>)
            ELSE Throw(Error(<<"WYND API error: ", r.error.detail>>),
                       <<r.req>>, <<>>)

\* The URIs the server advertises are written 'wynd://workspaces/list';
\* the others put the path after a host, after one slash, or name nothing
\* the handler knows; the last has no scheme.
ResourceUriInputs ==
    {Uri("wynd", TRUE, <<"workspaces", "list">>),
     Uri("wynd", TRUE, <<"workspace", "ws-1", "details">>),
     Uri("wynd", FALSE, <<"workspaces", "list">>),
     Uri("wynd", TRUE, <<"wynd", "workspace", "ws-1", "details">>),
     Uri("wynd", FALSE, <<"project", "p-1", "tasks">>),
     Uri("wynd", FALSE, <<"workspace", "ws-1", "settings">>),
     Uri("wynd", FALSE, <<"nothing">>),
     Uri(Undefined, FALSE, <<"workspaces", "list">>)}

legacyReadResource(uri, be) ==
    /\ toolPc = "idle"
    /\ Complete([kind |-> "resources/read", uri |-> uri],
                readResourceHandler(uri, be))

(***************************************************************************)
(* Tool calls and resource creates, one operation at a time.               *)
(***************************************************************************)
ToolNext ==
    \/ \E name \in CallNames, arguments \in ArgumentInputs,
          be \in BackendScripts : callTool(name, arguments, be)
    \/ \E name \in LegacyCallNames, be \in BackendScripts :
          legacyCallTool(name, be)
    \/ \E entity \in Entities, be \in BackendScripts :
          \E data \in DataInputs(entity) : resourceCreate(entity, data, be)
    \/ respond

ToolSpec == Init /\ [][ToolNext]_vars

(***************************************************************************)
(* Resource operations, one at a time.                                     *)
(***************************************************************************)
ResourceNext ==
    \/ \E entity \in Entities, be \in BackendScripts :
          \E data \in DataInputs(entity) : resourceCreate(entity, data, be)
    \/ \E entity \in AllEntities, params \in ListParamInputs,
          be \in BackendScripts : resourceList(entity, params, be)
    \/ \E entity \in AllEntities, be \in BackendScripts :
          \E uri \in UriInputs(entity) : resourceRead(entity, uri, be)
    \/ \E entity \in UpdatableEntities, data \in UpdateInputs,
          be \in BackendScripts :
          \E uri \in UriInputs(entity) : resourceUpdate(entity, uri, data, be)
    \/ \E definition \in ProjectDefinitions, method \in ProjectMethods,
          data \in ProjectDataInputs, be \in BackendScripts :
          \E uri \in UriInputs("projects") :
              projectWrite(definition, method, uri, data, be)
    \/ \E name \in Endpoints, data \in EndpointInputs, be \in BackendScripts :
          endpointCall(name, data, be)
    \/ \E a \in AxiosOutcomes : clientRequest(a)
    \/ \E uri \in ResourceUriInputs, be \in BackendScripts :
          legacyReadResource(uri, be)
    \/ respond

ResourceSpec == Init /\ [][ResourceNext]_vars

(***************************************************************************)
(* The process: its start and the signals that end it.                     *)
(***************************************************************************)
HostNext ==
    \/ \E e \in EntryPoints : launch(e)
    \/ \E ok \in BOOLEAN, stoppable \in BOOLEAN : initializeServer(ok, stoppable)
    \/ \E ok \in BOOLEAN : connect(ok)
    \/ \E outcome \in ToolsInitOutcomes : startTools(outcome)
    \/ \E i \in SignalIds : signal(i)
    \/ \E i \in SignalIds, ok \in BOOLEAN : stopSettles(i, ok)
    \/ \E i \in SignalIds, ok \in BOOLEAN, dies \in BOOLEAN :
          cliStopSettles(i, ok, dies)

HostSpec == Init /\ [][HostNext]_vars

(***************************************************************************)
(* Claims about the lifecycle.                                             *)
(***************************************************************************)
StopSettled(id) == stopP[id] \in {"resolved", "rejected"}

\* C1: once stop() is called on a running transport, the promise it
\* returns is eventually settled; in no execution does it stay pending
\* forever (the weakest reading of "always eventually resolves").
StopAlwaysSettles ==
    \A id \in StopIds : (stopP[id] = "pending") ~> StopSettled(id)

\* C2: a start() issued while the transport is running is rejected with
\* the 'already running' error, starts no second bind and changes nothing
\* else of the transport.
StartWhileRunningRejected ==
    [][(isRunning /\ nStarts' = nStarts + 1) =>
          /\ startP'[nStarts'] = "rejected_already_running"
          /\ UNCHANGED <<isRunning, connections, listenState, binder,
                         errorHandlers, closeListeners, sockets, resEnded,
                         nStops, stopP, forceShutdownTimer, bindAttempts,
                         listenCallbacks, lastBindError>>]_vars

StartWhileRunningWitness ==
    \E i \in StartIds :
        /\ startP[i] = "rejected_already_running"
        /\ isRunning
        /\ bindAttempts = 1

\* C3: the transport is marked running only after the listen callback has
\* fired; a failed bind rejects the start() that issued it, with 'Port <n>
\* is already in use' for EADDRINUSE and with the original error otherwise,
\* and leaves the transport not running.
RunningOnlyAfterBind ==
    /\ [](isRunning => (listenCallbacks > 0 /\ listenState \in {"listening", "closing"}))
    /\ [][(listenState = "binding" /\ listenState' = "closed") =>
             /\ startP[binder] = "pending"
             /\ startP'[binder] = (IF lastBindError' = "EADDRINUSE"
                                      THEN "rejected_port_in_use"
                                      ELSE "rejected_original_error")
             /\ ~isRunning /\ ~isRunning']_vars

RunningOnlyAfterBindWitness ==
    /\ isRunning
    /\ listenCallbacks = 1
    /\ \E i \in StartIds : startP[i] = "rejected_port_in_use"
    /\ \E i \in StartIds : startP[i] = "resolved"

\* C4: the live-connection set holds exactly the responses of the requests
\* that have arrived and whose connection has not closed yet.
LiveConnections == {c \in Conns : sockets[c] \in {"open", "destroying"}}

StreamTerminated(r) ==
    \E i \in 1..Len(streamEmitted[r]) : streamEmitted[r][i] \in {"end", "error"}

\* C5: for a streamed result the response is ended exactly once whatever
\* the order of the stream's data, end and error events, and nothing is
\* written to it after it has been ended.
StreamResponseEndedOnce ==
    \A r \in Conns :
        reqPc[r] = "streaming" =>
            /\ res[r].endCalls = (IF StreamTerminated(r) THEN 1 ELSE 0)
            /\ ~res[r].writeAfterEnd

\* C6: the message handler is invoked only for POST requests; OPTIONS is
\* answered 204 with no body and the three CORS headers before any body
\* parsing or handler logic, any other verb but POST is answered 405
\* 'Method Not Allowed', and in both cases the handler is never called.
MessageHandlerOnlyForPost ==
    \A r \in Conns :
        /\ handlerCalls[r] > 0 => reqMethod[r] = "POST"
        /\ reqMethod[r] = "OPTIONS" =>
              /\ reqPc[r] = "done" /\ res[r].status = 204
              /\ res[r].body = "none" /\ res[r].writes = 0
              /\ res[r].endCalls = 1
              /\ CorsHeaders \subseteq res[r].headers
              /\ ~bodyParsed[r] /\ handlerCalls[r] = 0
        /\ reqMethod[r] \notin {"none", "POST", "OPTIONS"} =>
              /\ reqPc[r] = "done" /\ res[r].status = 405
              /\ res[r].body = "Method Not Allowed"
              /\ res[r].endCalls = 1
              /\ ~bodyParsed[r] /\ handlerCalls[r] = 0

MessageHandlerOnlyForPostWitness ==
    \E r, s \in Conns :
        /\ reqMethod[r] = "OPTIONS" /\ res[r].status = 204
        /\ reqMethod[s] = "GET" /\ res[s].status = 405

\* C7 as stated: a POST whose body fails to parse or whose handler throws
\* is answered 500 with 'Internal Server Error' and the underlying error
\* detail, and is never left without a completed response.
FailureAnswered500WithDetail ==
    \A r \in Conns :
        thrown[r].kind # "none" =>
            /\ reqPc[r] = "done" /\ res[r].endCalls = 1
            /\ res[r].status = 500
            /\ res[r].body = "Internal Server Error"
            /\ res[r].details = thrown[r].detail

\* C7 as amended: the detail is the error's message when the caught value
\* is an Error, and the fixed text 'Unknown error' when it is not.
FailureAnswered500 ==
    \A r \in Conns :
        thrown[r].kind # "none" =>
            /\ reqPc[r] = "done" /\ res[r].endCalls = 1
            /\ res[r].status = 500
            /\ res[r].body = "Internal Server Error"
            /\ res[r].details = (IF thrown[r].kind = "NonError"
                                    THEN "Unknown error" ELSE thrown[r].detail)

FailureAnswered500Witness ==
    \E r, s \in Conns :
        /\ thrown[r].kind = "SyntaxError" /\ res[r].status = 500
        /\ res[r].details = "Unexpected token"
        /\ thrown[s].kind = "NonError" /\ res[s].status = 500
        /\ handlerCalls[s] = 1

(***************************************************************************)
(* Claims about tool calls and resource creates.                           *)
(***************************************************************************)
ToolCallDone(server) ==
    /\ toolPc = "done"
    /\ toolOp.kind = "tools/call"
    /\ toolOp.server = server

Registered(server) == IF server = "modular" THEN ToolNames ELSE LegacyToolNames

\* The envelope a finished tool call of the modular server answered with.
Envelope == toolOutcome.content.text

\* C8: a tools/call whose name matches no registered tool, compared
\* exactly and with case, ends in an error thrown to the protocol layer
\* (no envelope is returned), runs no tool handler and sends nothing to
\* the backend; this holds for both dispatchers.
UnknownToolIsProtocolError ==
    \A server \in {"modular", "legacy"} :
        (ToolCallDone(server) /\ toolOp.name \notin Registered(server))
            => /\ toolOutcome.kind = "thrown"
               /\ handlerRuns = <<>>
               /\ backendLog = <<>>

UnknownToolIsProtocolErrorWitness ==
    /\ ToolCallDone("modular")
    /\ toolOp.name = "LIST_TASKS"
    /\ toolOutcome.kind = "thrown"
    /\ toolOutcome.error.detail = <<"Tool '", "LIST_TASKS", "' not found">>

RegisteredCallDone == ToolCallDone("modular") /\ toolOp.name \in ToolNames

CaughtBy(who) == {i \in 1..Len(raised) : raised[i].caughtBy = who}

\* C9 as stated: every registered handler returns an envelope for every
\* argument map and backend outcome, no exception reaches the dispatcher,
\* and whenever an error was thrown inside the handler the envelope is
\* {success:false, error:<message of that error>}.
EveryFailureYieldsFailureEnvelope ==
    RegisteredCallDone
        => /\ toolOutcome.kind = "returned"
           /\ raised # <<>>
                => /\ Envelope.success = FALSE
                   /\ Envelope.error = toolErrorMessage(raised[Len(raised)].error)

\* C9, amended: every registered handler returns an envelope and no
\* exception reaches the dispatcher; an error that reaches the handler's
\* catch block yields {success:false, error:<message>}, while a failed
\* best-effort lookup (the statistics of get_project, the project and the
\* workspace of get_context) is only logged and the envelope stays
\* success:true.
ToolHandlersTotal ==
    RegisteredCallDone
        => /\ toolOutcome.kind = "returned"
           /\ \A i \in 1..Len(raised) : raised[i].caughtBy \in {"handler", "warn"}
           /\ \A i \in CaughtBy("handler") :
                /\ Envelope.success = FALSE
                /\ Envelope.error = toolErrorMessage(raised[i].error)
           /\ CaughtBy("warn") # {}
                => /\ toolOp.name \in {"get_project", "get_context"}
                   /\ Envelope.success = TRUE

ToolHandlersTotalWitness ==
    /\ RegisteredCallDone
    /\ toolOp.name = "list_tasks"
    /\ ~toolOp.arguments.given
    /\ CaughtBy("handler") # {}
    /\ toolOutcome.kind = "returned"
    /\ Envelope.success = FALSE
    /\ Envelope.error = "No response received from server"

\* C10: a missing required field is detected before any backend call: a
\* call of create_task, update_task, create_document, create_phase or
\* update_phase without its required field returns success:false and
\* sends no request, and a create() of the tasks, documents, workspaces,
\* errors, prompts or phases resource without a required field throws
\* and sends no request.
MissingFieldDetectedBeforeBackend ==
    /\ (/\ RegisteredCallDone
        /\ toolOp.name \in DOMAIN ToolRequired
        /\ ArgsOrEmpty(toolOp.arguments)[ToolRequired[toolOp.name]] = Undefined)
            => /\ toolOutcome.kind = "returned"
               /\ Envelope.success = FALSE
               /\ backendLog = <<>>
    /\ (/\ toolPc = "done"
        /\ toolOp.kind = "resource.create"
        /\ \E f \in ResourceRequired[toolOp.entity] : toolOp.data[f] = Undefined)
            => /\ toolOutcome.kind = "thrown"
               /\ backendLog = <<>>

MissingFieldDetectedBeforeBackendWitness ==
    /\ RegisteredCallDone
    /\ toolOp.name = "update_phase"
    /\ toolOp.arguments.given
    /\ toolOp.arguments.map["phase_id"] = Undefined
    /\ toolOp.arguments.map["title"] = "My Space"
    /\ Envelope = [success |-> FALSE, error |-> "Phase ID is required"]
    /\ backendLog = <<>>

ListTasksDone ==
    /\ RegisteredCallDone
    /\ toolOp.name = "list_tasks"
    /\ Envelope.success = TRUE

OpDone(kind) == toolPc = "done" /\ toolOp.kind = kind

Failed(entry) == entry.outcome \in {"non2xx", "noResponse"}

\* C12: TaskResource.list sends status 'in_progress' when it is called
\* with no params or with params that carry no status, and sends no status
\* key at all, not the literal 'all', when the status is 'all'.
TaskListStatusFilter ==
    (OpDone("resource.list") /\ toolOp.entity = "tasks") =>
        LET status == toolOp.params.map["status"]
            sent == backendLog[1].data["status"]
        IN /\ Len(backendLog) = 1
           /\ status = Undefined => sent = "in_progress"
           /\ status = "all" => sent = Undefined

\* C13: for a list of tasks, phases or documents, a project_id the caller
\* supplies is the one sent to the backend; the configured default is sent
\* only when the caller's params carry none.
ListKeepsCallerProject ==
    (OpDone("resource.list") /\ toolOp.entity \in {"tasks", "phases", "documents"}) =>
        LET caller == toolOp.params.map["project_id"]
            sent == backendLog[1].data["project_id"]
        IN /\ Len(backendLog) = 1
           /\ caller \notin {Undefined, ""} => sent = caller
           /\ caller = Undefined => sent = defaultProjectId

\* C14: a create() of the tasks or documents resource whose data carries
\* no project_id (and every other required field) is not an error: it
\* sends the entity to the backend with project_id set to the configured
\* default.
CreateWithoutProjectUsesDefault ==
    (/\ OpDone("resource.create")
     /\ toolOp.entity \in {"tasks", "documents"}
     /\ toolOp.data["project_id"] = Undefined
     /\ \A f \in ResourceRequired[toolOp.entity] \ {"project_id"} :
            ~Falsy(toolOp.data[f]))
        => /\ Len(backendLog) = 1
           /\ backendLog[1].method = "POST"
           /\ backendLog[1].data["project_id"] = defaultProjectId

ProjectsAreReadOnly ==
    OpDone("project.write") =>
        /\ toolOutcome.kind = "thrown"
        /\ backendLog = <<>>

\* C17: list() of every resource handler never throws: it returns the
\* empty array when the backend call fails, and the data array of the
\* answer (the empty array when there is none) when it succeeds.
ListNeverThrows ==
    OpDone("resource.list") =>
        /\ toolOutcome.kind = "returned"
        /\ Len(backendLog) = 1
        /\ Failed(backendLog[1]) => toolOutcome.value = <<>>
        /\ ~Failed(backendLog[1]) =>
               toolOutcome.value = ListData(backendLog[1].answer)

ListNeverThrowsWitness ==
    /\ OpDone("resource.list")
    /\ toolOp.entity = "errors"
    /\ backendLog[1].outcome = "noResponse"
    /\ toolOutcome.kind = "returned"
    /\ toolOutcome.value = <<>>

\* C18: read(uri) of every resource handler never throws: it returns the
\* entity when the backend's get-by-id succeeds, and null when the id
\* segment is empty or the backend call fails in any way.
ReadNeverThrows ==
    OpDone("resource.read") =>
        /\ toolOutcome.kind = "returned"
        /\ pop(toolOp.uri) = "" => toolOutcome.value.null /\ backendLog = <<>>
        /\ (backendLog # <<>> /\ Failed(backendLog[1])) => toolOutcome.value.null
        /\ (backendLog # <<>> /\ ~Failed(backendLog[1])) =>
               toolOutcome.value = Some(backendLog[1].answer)

ReadNeverThrowsWitness ==
    /\ OpDone("resource.read")
    /\ toolOp.entity = "tasks"
    /\ backendLog # <<>>
    /\ backendLog[1].outcome = "non2xx"
    /\ toolOutcome.kind = "returned"
    /\ toolOutcome.value.null

\* The backend update of the operation in hand failed.
UpdateFailed ==
    /\ backendLog # <<>>
    /\ backendLog[Len(backendLog)].method = "PUT"
    /\ Failed(backendLog[Len(backendLog)])

\* C19: when the backend update fails TaskResource.update returns null
\* and does not throw, while the update() of documents, workspaces and
\* prompts throws the error; when the backend create fails, create()
\* throws for tasks, documents, workspaces, errors and prompts.
UpdateFailurePolicy ==
    /\ (OpDone("resource.update") /\ UpdateFailed) =>
          /\ toolOp.entity = "tasks" =>
                toolOutcome.kind = "returned" /\ toolOutcome.value.null
          /\ toolOp.entity \in {"documents", "workspaces", "prompts"} =>
                /\ toolOutcome.kind = "thrown"
                /\ toolOutcome.error =
                       ClientError(backendLog[Len(backendLog)].outcome)
    /\ (/\ OpDone("resource.create")
        /\ toolOp.entity \in {"tasks", "documents", "workspaces", "errors",
                              "prompts"}
        /\ backendLog # <<>>
        /\ Failed(backendLog[1])) =>
          /\ toolOutcome.kind = "thrown"
          /\ toolOutcome.error = ClientError(backendLog[1].outcome)

UpdateFailurePolicyWitness ==
    /\ OpDone("resource.update")
    /\ toolOp.entity = "documents"
    /\ Len(backendLog) = 2
    /\ UpdateFailed
    /\ toolOutcome.kind = "thrown"

\* C20: ErrorResource.update without a status returns the existing record
\* overlaid with error_type, error_message, stack_trace, metadata,
\* project_id and a fresh updated_at, and the only request it sends is
\* the read of the existing record; a request that writes is sent only
\* when data carries a status, and it is the updateStatus request.
ErrorUpdateIsLocalMerge ==
    (OpDone("resource.update") /\ toolOp.entity = "errors") =>
        /\ (toolOutcome.kind = "returned" /\ Falsy(toolOp.data["status"])) =>
              /\ Len(backendLog) = 1
              /\ backendLog[1].method = "GET"
              /\ backendLog[1].path = <<"/api/errors/", pop(toolOp.uri)>>
              /\ toolOutcome.value =
                     Some(Merged(backendLog[1].answer, toolOp.data))
        /\ \A i \in 1..Len(backendLog) :
              backendLog[i].method # "GET" =>
                 /\ ~Falsy(toolOp.data["status"])
                 /\ backendLog[i].path =
                        <<"/api/errors/", pop(toolOp.uri), "/status">>

ErrorUpdateIsLocalMergeWitness ==
    /\ OpDone("resource.update")
    /\ toolOp.entity = "errors"
    /\ toolOp.data["status"] = Undefined
    /\ toolOp.data["error_type"] = "TypeError"
    /\ toolOutcome.kind = "returned"
    /\ toolOutcome.value.value["error_type"] = "TypeError"
    /\ toolOutcome.value.value["updated_at"] = Now
    /\ toolOutcome.value.value["id"] = "id-1"
    /\ Len(backendLog) = 1

\* The fields update() forwards, per entity.
UpdateAllowed ==
    [tasks |-> {"title", "description", "status", "priority", "due_date",
                "assignee_id", "completed_at"},
     workspaces |-> {"name", "description", "settings", "slug"},
     phases |-> {"title", "description", "status", "order", "start_date",
                 "end_date", "color"}]

\* C21: the payload update() sends to the backend for a task, a workspace
\* or a phase carries the allowed fields of data and no other key; a key
\* outside the allow-list is dropped and does not keep the update from
\* being sent.
UpdateSendsOnlyAllowedFields ==
    (OpDone("resource.update") /\ toolOp.entity \in DOMAIN UpdateAllowed) =>
        /\ \A i \in 1..Len(backendLog) :
              backendLog[i].method = "PUT" =>
                 \A f \in Fields :
                    backendLog[i].data[f] =
                       IF f \in UpdateAllowed[toolOp.entity]
                       THEN toolOp.data[f] ELSE Undefined
        /\ (toolOp.entity \in {"tasks", "phases"} /\ pop(toolOp.uri) # "") =>
              Len(backendLog) = 1 /\ backendLog[1].method = "PUT"
        /\ (/\ toolOp.entity = "workspaces"
            /\ backendLog # <<>>
            /\ ~Failed(backendLog[1])) =>
              Len(backendLog) = 2 /\ backendLog[2].method = "PUT"

UpdateSendsOnlyAllowedFieldsWitness ==
    /\ OpDone("resource.update")
    /\ toolOp.entity = "tasks"
    /\ toolOp.data["error_type"] = "TypeError"
    /\ toolOp.data["title"] = "New title"
    /\ Len(backendLog) = 1
    /\ backendLog[1].method = "PUT"
    /\ backendLog[1].data["error_type"] = Undefined
    /\ backendLog[1].data["title"] = "New title"
    /\ toolOutcome.kind = "returned"
    /\ ~toolOutcome.value.null

\* C26: ProjectResource.read of 'default' or of a URI that ends in
\* '/default' returns a project or null; with no default project
\* configured it returns null and sends nothing, and with any default
\* project configured it sends exactly one request, the get of that id.
DefaultProjectReadOnce ==
    (/\ OpDone("resource.read")
     /\ toolOp.entity = "projects"
     /\ IsDefaultUri(toolOp.uri)) =>
        /\ toolOutcome.kind = "returned"
        /\ Falsy(defaultProjectId) =>
              toolOutcome.value.null /\ backendLog = <<>>
        /\ ~Falsy(defaultProjectId) =>
              /\ Len(backendLog) = 1
              /\ backendLog[1].method = "GET"
              /\ backendLog[1].path = <<"/api/projects/", defaultProjectId>>

\* C30: the update() of documents, workspaces and prompts writes only
\* after the read of the same URI returned an entity: a read that fails
\* ends the update with a 'not found' error and no write, and the log of
\* an update is at most one read followed by at most one write.
UpdateWritesAfterRead ==
    (/\ OpDone("resource.update")
     /\ toolOp.entity \in {"documents", "workspaces", "prompts"}) =>
        /\ Len(backendLog) <= 2
        /\ \A i \in 1..Len(backendLog) :
              /\ backendLog[i].method = IF i = 1 THEN "GET" ELSE "PUT"
              /\ backendLog[i].path[2] = pop(toolOp.uri)
        /\ Len(backendLog) = 2 => ~Failed(backendLog[1])
        /\ (backendLog # <<>> /\ Failed(backendLog[1])) =>
              /\ Len(backendLog) = 1
              /\ toolOutcome.kind = "thrown"
              /\ toolOutcome.error.kind = "Error"
              /\ toolOutcome.error.detail[Len(toolOutcome.error.detail)]
                     = " not found"

UpdateWritesAfterReadWitness ==
    /\ OpDone("resource.update")
    /\ toolOp.entity = "documents"
    /\ Len(backendLog) = 1
    /\ backendLog[1].outcome = "non2xx"
    /\ toolOutcome.kind = "thrown"
    /\ toolOutcome.error.detail = <<"document", " not found">>

\* C27: a stop() issued while the transport is not marked running (never
\* started, stopped, or a start() still waiting for its bind) resolves at
\* once and changes nothing: the listener, its close callbacks, the
\* live-connection set, the sockets and the running flag stay as they
\* are and no force-shutdown timer is armed.
StopWhenNotRunningIsNoOp ==
    [][(nStops' = nStops + 1 /\ ~isRunning) =>
          /\ stopP'[nStops'] = "resolved"
          /\ UNCHANGED <<isRunning, connections, listenState, binder,
                         closeListeners, sockets, resEnded, forceShutdownTimer,
                         startP>>]_vars

StopWhenNotRunningIsNoOpWitness ==
    /\ nStops >= 1
    /\ stopP[1] = "resolved"
    /\ forceShutdownTimer[1] = "none"
    /\ listenState = "binding"
    /\ closeListeners = <<>>
    /\ ~isRunning

\* C28: at the step in which the promise of a stop() that found the
\* transport running settles, by the graceful or by the forced path, the
\* transport is no longer marked running and its live-connection set is
\* empty, which is what start() asks for.
StopSettlesStopped ==
    [][\A id \in StopIds :
          (stopP[id] = "pending" /\ stopP'[id] # "pending") =>
             /\ stopP'[id] \in {"resolved", "rejected"}
             /\ ~isRunning'
             /\ connections' = {}]_vars

StopSettlesStoppedWitness ==
    /\ stopP[1] = "resolved"
    /\ forceShutdownTimer[1] = "fired"
    /\ ~isRunning
    /\ connections = {}
    /\ nStarts = 2
    /\ startP[1] = "resolved"
    /\ startP[2] = "pending"

\* C23: a process that exits because of a termination signal has made a
\* stop attempt that settled before the exit: the exit code is 0 after a
\* stop that succeeded and 1 after a stop that failed.
SignalExitAfterStop ==
    exitBy = "signal" =>
        \E i \in 1..nSignals :
            \/ exitCode = "0" /\ "resolved" \in {srvStopP[i], cliStopP[i]}
            \/ exitCode = "1" /\ srvStopP[i] = "rejected"

\* C29: WyndMcpServer.start gives the tools/list and tools/call handlers
\* to the server only after connect() has resolved, and a failure while
\* it registers them is swallowed: start() resolves with the server
\* connected.
ToolHandlersAfterConnect ==
    /\ requestHandlers # {} => connected
    /\ srvPc \in {"idle", "initializing", "connecting", "initTools"} =>
          requestHandlers = {}
    /\ toolsInitFailed => srvStartP = "resolved" /\ connected

ToolHandlersAfterConnectWitness ==
    /\ connected
    /\ requestHandlers = {}
    /\ toolsInitFailed
    /\ srvStartP = "resolved"
    /\ Alive

\* C22: the backend client turns a failed request into exactly one of
\* three errors: for an answer outside 2xx whose body has a message, an
\* error with that message, the status and the body; for no answer, the
\* error 'No response received from server'; for a request that could
\* not be made, the underlying error as it is.  The answer of a request
\* that succeeds is its body.
ClientClassifiesFailures ==
    OpDone("client.request") =>
        LET a == toolOp.answer
        IN /\ a.ok => /\ toolOutcome.kind = "returned"
                      /\ toolOutcome.value = a.data
           /\ ~a.ok => toolOutcome.kind = "thrown"
           /\ (~a.ok /\ a.hasResponse) =>
                 /\ toolOutcome.error.kind = "ApiError"
                 /\ toolOutcome.error.status = a.status
                 /\ toolOutcome.error.data = a.data
                 /\ (/\ a.data.isObject
                     /\ a.data.hasMessage
                     /\ a.data.message.t = "string") =>
                       toolOutcome.error.detail = a.data.message.v
           /\ (~a.ok /\ ~a.hasResponse /\ a.hasRequest) =>
                 toolOutcome.error = Error("No response received from server")
           /\ (~a.ok /\ ~a.hasResponse /\ ~a.hasRequest) =>
                 toolOutcome.error = AxiosError(a)

ClientClassifiesFailuresWitness ==
    /\ OpDone("client.request")
    /\ ~toolOp.answer.ok
    /\ toolOp.answer.status = "404"
    /\ toolOp.answer.data.message = Str("X")
    /\ toolOutcome.kind = "thrown"
    /\ toolOutcome.error.kind = "ApiError"
    /\ toolOutcome.error.detail = "X"

RequestsIndependent ==
    \A r \in Conns : \A q \in Conns \ {r} :
        reqPc[r] = "handler" =>
            /\ sockets[q] = "none" => ENABLED requestHandler(q, "POST")
            /\ reqPc[q] = "body" => ENABLED bodyEnd(q, TRUE)
            /\ reqPc[q] = "handler" => ENABLED handlerReturns(q, FALSE)

RequestsIndependentWitness ==
    \E r \in Conns : \E q \in Conns \ {r} :
        /\ reqPc[r] = "handler"
        /\ res[r].endCalls = 0
        /\ reqPc[q] = "done"
        /\ handlerCalls[q] = 1
        /\ res[q].endCalls = 1
        /\ res[q].body = "response"

====
